---- MODULE Spec2Model ----
(***************************************************************************)
(* Model of mp4convertor (src/lib.rs): the compliance decision logic       *)
(* (ComplianceEngine::analyze_compliance, detect_content_type), the two    *)
(* remediation planners (fix_video_compliance_optimized and                *)
(* fix_video_compliance), the aggregators ComplianceSummary and            *)
(* BatchProcessor, and the loop of process_directory.                      *)
(*                                                                         *)
(* Rust Strings are TLA+ strings; Vec<T> are sequences.  f64 frame rates   *)
(* are records [nan, milli]: milli is the rate in thousandths of a frame   *)
(* per second, nan marks the IEEE NaN value for which every comparison is  *)
(* false.  The u8 score keeps its width (saturating_sub).  The f64         *)
(* average_score of ComplianceSummary keeps its 53-bit significand and     *)
(* its rounding.                                                           *)
(***************************************************************************)
EXTENDS Integers, Sequences, FiniteSets, TLC

VARIABLES
    metadata,       \* VideoMetadata of the asset (the fields the logic reads)
    path,           \* file name of the input path
    result,         \* ComplianceResult of analyze_compliance, or NoResult
    content_type,   \* ContentType chosen by detect_content_type, or "none"
    args,           \* ffmpeg argument list built by the planner
    output,         \* VideoMetadata of the file the transcoder wrote
    recheck,        \* ComplianceResult of the written file, or NoResult
    err,            \* the VideoError variant returned, or "none"
    pc,             \* position of the asset in the pipeline
    compliance_summary, \* the ComplianceSummary being filled
    added,          \* the (result, filename) pairs handed to add_result so far
    processor,      \* the BatchProcessor being filled
    calls,          \* the (path, result) pairs handed to process_file_result so far
    directory,      \* the directory handed to process_directory: is_dir, entries
    flags,          \* should_convert and analyze_compliance of process_directory
    video_files,    \* the files validate_directory returned, in scan order
    next_file,      \* index in video_files of the file the loop is at
    summary,        \* the ProcessingSummary being filled (total_videos)
    written,        \* the output files transcoder runs have produced
    log,            \* the steps process_directory has completed, in order
    child           \* the ffmpeg child process of a transcoder call and its pipes

assetVars == <<metadata, path, result, content_type, args, output, recheck, err, pc>>

aggregateVars == <<compliance_summary, added, processor, calls>>

directoryVars == <<directory, flags, video_files, next_file, summary, written, log>>

transcoderVars == <<child>>

vars == <<assetVars, aggregateVars, directoryVars, transcoderVars>>

\* f64 0.0
F64Zero == [m |-> <<>>, e |-> 0]

\* ComplianceSummary::new(), lines 1649-1651 (Default::default())
NewComplianceSummary ==
    [total_files |-> 0, compliant_files |-> 0, non_compliant_files |-> 0,
     average_score |-> F64Zero, critical_violations |-> 0,
     warning_violations |-> 0, info_violations |-> 0, files_by_score |-> <<>>]

\* BatchProcessor::new(total_files), lines 1377-1385
NewBatchProcessor(total_files) ==
    [total_files |-> total_files, processed_files |-> 0, failed_files |-> <<>>,
     fixed_files |-> <<>>, skipped_files |-> <<>>]

\* no summary and no batch processor is in use
NoAggregates ==
    /\ compliance_summary = NewComplianceSummary
    /\ added = <<>>
    /\ processor = NewBatchProcessor(0)
    /\ calls = <<>>

\* process_directory is not running
NoDirectory ==
    /\ directory = [is_dir |-> FALSE, entries |-> <<>>]
    /\ flags = [should_convert |-> FALSE, analyze_compliance |-> FALSE]
    /\ video_files = <<>>
    /\ next_file = 0
    /\ summary = [total_videos |-> 0]
    /\ written = {}
    /\ log = <<>>

\* no transcoder has been started: Command::new("ffmpeg") not yet built
NoChild ==
    [caller |-> "none", state |-> "unspawned", run |-> [spawned |-> FALSE, code |-> 0],
     pending |-> [stdout |-> 0, stderr |-> 0], pipe |-> [stdout |-> 0, stderr |-> 0]]

NoTranscoder == child = NoChild

(***************************************************************************)
(* String helpers (std::string::String / slice methods).                   *)
(***************************************************************************)
UpperChars == "ABCDEFGHIJKLMNOPQRSTUVWXYZ"

LowerChars == "abcdefghijklmnopqrstuvwxyz"

\* the upper-case letters, and the lower-case letter of each
UpperSet == {SubSeq(UpperChars, i, i) : i \in 1..Len(UpperChars)}

LowerOf ==
    [c \in UpperSet |->
        LET i == CHOOSE j \in 1..Len(UpperChars) : SubSeq(UpperChars, j, j) = c
        IN  SubSeq(LowerChars, i, i)]

\* char::to_lowercase on one character (ASCII range)
LowerChar(c) == IF c \in UpperSet THEN LowerOf[c] ELSE c

RECURSIVE ToLower(_)
\* str::to_lowercase
ToLower(s) ==
    IF Len(s) = 0 THEN ""
    ELSE LowerChar(SubSeq(s, 1, 1)) \o ToLower(SubSeq(s, 2, Len(s)))

\* str::contains(&str): t occurs in s as a contiguous substring
StrContains(s, t) ==
    \E i \in 1..(Len(s) - Len(t) + 1) : SubSeq(s, i, i + Len(t) - 1) = t

\* Vec<String>::contains: exact element equality
VecContains(v, x) == \E i \in 1..Len(v) : v[i] = x

RECURSIVE Join(_, _)
\* [String]::join(sep)
Join(v, sep) ==
    IF Len(v) = 0 THEN ""
    ELSE IF Len(v) = 1 THEN v[1]
    ELSE v[1] \o sep \o Join(Tail(v), sep)

\* Iterator::any over the violations of a result
AnyViolation(r, cats) == \E i \in 1..Len(r.violations) : r.violations[i].category \in cats

(***************************************************************************)
(* ContentStandards::load_default                                          *)
(***************************************************************************)
preferred_resolutions == <<"1280x720", "1920x1080", "720x1280", "1080x1920">>

acceptable_resolutions ==
    <<"1360x768", "1280x800", "1600x900", "1440x900", "1680x1048", "1440x810", "2160x3840">>

preferred_codecs == <<"h264", "libx264">>

\* preferred_frame_rates, in thousandths
preferred_frame_rates == <<15000, 23976, 24000, 25000, 29970, 30000>>

containers == <<"mp4", "mov">>

unsupported_containers == <<"mkv">>

audio_preferred_codecs == <<"pcm", "alac">>

audio_acceptable_codecs == <<"aac">>

color_spaces == <<"rec709", "bt709">>

unsupported_color_spaces == <<"bt2020", "dci-p3", "rec2020">>

hdr_restrictions == <<"hdr10", "hdr10+", "dolby_vision", "hlg">>

(***************************************************************************)
(* u8 arithmetic                                                           *)
(***************************************************************************)
\* a plausible slip: wrapping_sub instead of saturating_sub
WrappingSub(a, b) == (a - b + 256) % 256

\* u8::saturating_sub
SaturatingSub(a, b) == IF a >= b THEN a - b ELSE 0

(***************************************************************************)
(* ComplianceEngine::analyze_compliance, one operator per rule; each takes *)
(* the accumulator [violations, recommendations, score] and returns it     *)
(* updated.                                                                *)
(***************************************************************************)
Violation(sev, cat, desc, cur, exp) ==
    [severity |-> sev, category |-> cat, description |-> desc,
     current_value |-> cur, expected_value |-> exp]

\* a plausible slip: the branches without a recommendation push one too
PushAlsoRecommends(acc, v, d) ==
    [violations |-> Append(acc.violations, v),
     recommendations |-> Append(acc.recommendations, v.description),
     score |-> SaturatingSub(acc.score, d)]

\* violations.push(v); score = score.saturating_sub(d); no recommendation
Push(acc, v, d) ==
    [violations |-> Append(acc.violations, v),
     recommendations |-> acc.recommendations,
     score |-> SaturatingSub(acc.score, d)]

\* a plausible slip: the violation is inserted at the front of the list
PushRecFront(acc, v, d, rec) ==
    [violations |-> <<v>> \o acc.violations,
     recommendations |-> Append(acc.recommendations, rec),
     score |-> SaturatingSub(acc.score, d)]

\* the same with recommendations.push(rec)
PushRec(acc, v, d, rec) ==
    [violations |-> Append(acc.violations, v),
     recommendations |-> Append(acc.recommendations, rec),
     score |-> SaturatingSub(acc.score, d)]

Critical == "Critical"

Warning == "Warning"

Info == "Info"

\* lines 125-141: video codec rule
CheckVideoCodec(m, acc) ==
    IF ~VecContains(preferred_codecs, m.codec)
    THEN PushRec(acc,
                 Violation(Critical, "VideoCodec", "Video codec not in preferred list",
                           m.codec, Join(preferred_codecs, ", ")),
                 20, "Convert to H.264 codec for optimal compatibility")
    ELSE acc

\* a plausible slip: the acceptable resolution is reported as Info
CheckResolutionAcceptableInfo(m, acc) ==
    LET is_preferred_res == VecContains(preferred_resolutions, m.resolution)
        is_acceptable_res == VecContains(acceptable_resolutions, m.resolution)
        expected == "Preferred: " \o Join(preferred_resolutions, ", ")
    IN  IF ~is_preferred_res /\ ~is_acceptable_res
        THEN PushRec(acc,
                     Violation(Critical, "Resolution", "Resolution not supported",
                               m.resolution, expected),
                     25, "Resize to 1920x1080 or 1280x720 for standard content")
        ELSE IF ~is_preferred_res
        THEN Push(acc,
                  Violation(Info, "Resolution", "Resolution acceptable but not preferred",
                            m.resolution, expected),
                  10)
        ELSE acc

\* a plausible slip: the expected value names the first preferred resolution
\* only
CheckResolutionExpectsFirst(m, acc) ==
    LET is_preferred_res == VecContains(preferred_resolutions, m.resolution)
        is_acceptable_res == VecContains(acceptable_resolutions, m.resolution)
        expected == "Preferred: " \o preferred_resolutions[1]
    IN  IF ~is_preferred_res /\ ~is_acceptable_res
        THEN PushRec(acc,
                     Violation(Critical, "Resolution", "Resolution not supported",
                               m.resolution, expected),
                     25, "Resize to 1920x1080 or 1280x720 for standard content")
        ELSE IF ~is_preferred_res
        THEN Push(acc,
                  Violation(Warning, "Resolution", "Resolution acceptable but not preferred",
                            m.resolution, expected),
                  10)
        ELSE acc

\* lines 143-181: resolution rule
CheckResolution(m, acc) ==
    LET is_preferred_res == VecContains(preferred_resolutions, m.resolution)
        is_acceptable_res == VecContains(acceptable_resolutions, m.resolution)
        expected == "Preferred: " \o Join(preferred_resolutions, ", ")
    IN  IF ~is_preferred_res /\ ~is_acceptable_res
        THEN PushRec(acc,
                     Violation(Critical, "Resolution", "Resolution not supported",
                               m.resolution, expected),
                     25, "Resize to 1920x1080 or 1280x720 for standard content")
        ELSE IF ~is_preferred_res
        THEN Push(acc,
                  Violation(Warning, "Resolution", "Resolution acceptable but not preferred",
                            m.resolution, expected),
                  10)
        ELSE acc

\* a plausible slip: the container is compared without to_lowercase
CheckContainerCaseSensitive(m, acc) ==
    IF VecContains(unsupported_containers, m.container)
    THEN PushRec(acc,
                 Violation(Critical, "Container", "Container format not supported",
                           m.container, Join(containers, ", ")),
                 15, "Convert to MP4 or MOV container")
    ELSE acc

\* lines 183-199: container rule
CheckContainer(m, acc) ==
    IF VecContains(unsupported_containers, ToLower(m.container))
    THEN PushRec(acc,
                 Violation(Critical, "Container", "Container format not supported",
                           m.container, Join(containers, ", ")),
                 15, "Convert to MP4 or MOV container")
    ELSE acc

\* a plausible slip: the acceptable audio codec is let through unreported
CheckAudioCodecAcceptableSilent(m, acc) ==
    IF /\ ~VecContains(audio_preferred_codecs, m.audio_codec)
       /\ ~VecContains(audio_acceptable_codecs, m.audio_codec)
    THEN PushRec(acc,
                 Violation(Warning, "AudioCodec",
                           "Audio codec not in preferred or acceptable list",
                           m.audio_codec,
                           "Preferred: " \o Join(audio_preferred_codecs, ", ")
                               \o " | Acceptable: " \o Join(audio_acceptable_codecs, ", ")),
                 15, "Convert audio to PCM or ALAC for highest quality")
    ELSE acc

\* a plausible slip: the acceptable audio codec is reported as a Warning
CheckAudioCodecAcceptableWarning(m, acc) ==
    IF /\ ~VecContains(audio_preferred_codecs, m.audio_codec)
       /\ ~VecContains(audio_acceptable_codecs, m.audio_codec)
    THEN PushRec(acc,
                 Violation(Warning, "AudioCodec",
                           "Audio codec not in preferred or acceptable list",
                           m.audio_codec,
                           "Preferred: " \o Join(audio_preferred_codecs, ", ")
                               \o " | Acceptable: " \o Join(audio_acceptable_codecs, ", ")),
                 15, "Convert audio to PCM or ALAC for highest quality")
    ELSE IF VecContains(audio_acceptable_codecs, m.audio_codec)
    THEN Push(acc,
              Violation(Warning, "AudioCodec", "Audio codec is acceptable but not preferred",
                        m.audio_codec, "Preferred: " \o Join(audio_preferred_codecs, ", ")),
              5)
    ELSE acc

\* lines 201-243: audio codec rule
CheckAudioCodec(m, acc) ==
    IF /\ ~VecContains(audio_preferred_codecs, m.audio_codec)
       /\ ~VecContains(audio_acceptable_codecs, m.audio_codec)
    THEN PushRec(acc,
                 Violation(Warning, "AudioCodec",
                           "Audio codec not in preferred or acceptable list",
                           m.audio_codec,
                           "Preferred: " \o Join(audio_preferred_codecs, ", ")
                               \o " | Acceptable: " \o Join(audio_acceptable_codecs, ", ")),
                 15, "Convert audio to PCM or ALAC for highest quality")
    ELSE IF VecContains(audio_acceptable_codecs, m.audio_codec)
    THEN Push(acc,
              Violation(Info, "AudioCodec", "Audio codec is acceptable but not preferred",
                        m.audio_codec, "Preferred: " \o Join(audio_preferred_codecs, ", ")),
              5)
    ELSE acc

\* the loop condition of lines 248-253 and 270-275: some term of the list
\* occurs in the lower-cased colour space
MatchesAny(color_space, terms) ==
    LET lowered == ToLower(color_space)
    IN  \E i \in 1..Len(terms) : StrContains(lowered, ToLower(terms[i]))

\* a plausible slip: the second loop runs whatever the first one found
CheckColorSpaceNoShortCircuit(m, acc) ==
    LET a1 == IF MatchesAny(m.color_space, hdr_restrictions)
              THEN PushRec(acc,
                           Violation(Critical, "HDR",
                                     "HDR content not supported by delivery pipeline",
                                     m.color_space, "Rec. 709 (SDR)"),
                           30, "Convert to SDR (Rec. 709) color space")
              ELSE acc
    IN  IF MatchesAny(m.color_space, unsupported_color_spaces)
        THEN PushRec(a1,
                     Violation(Critical, "HDR",
                               "Color space not supported by delivery pipeline",
                               m.color_space, "Rec. 709 (SDR)"),
                     25, "Convert to SDR (Rec. 709) color space")
        ELSE a1

\* lines 245-288: HDR restrictions, then (only when none matched) the
\* unsupported colour spaces; each loop breaks at its first match
CheckColorSpace(m, acc) ==
    LET hdr_violation == MatchesAny(m.color_space, hdr_restrictions)
    IN  IF hdr_violation
        THEN PushRec(acc,
                     Violation(Critical, "HDR",
                               "HDR content not supported by delivery pipeline",
                               m.color_space, "Rec. 709 (SDR)"),
                     30, "Convert to SDR (Rec. 709) color space")
        ELSE IF MatchesAny(m.color_space, unsupported_color_spaces)
        THEN PushRec(acc,
                     Violation(Critical, "HDR",
                               "Color space not supported by delivery pipeline",
                               m.color_space, "Rec. 709 (SDR)"),
                     25, "Convert to SDR (Rec. 709) color space")
        ELSE acc

\* a plausible slip: compliant only when there is no violation at all
AllInfoOrNone(violations) == Len(violations) = 0

\* lines 290-292: violations.iter().all(|v| matches!(v.severity, Info))
AllInfo(violations) ==
    \A i \in 1..Len(violations) : violations[i].severity = Info

\* lines 118-300
analyze_compliance(m) ==
    LET a0 == [violations |-> <<>>, recommendations |-> <<>>, score |-> 100]
        a1 == CheckVideoCodec(m, a0)
        a2 == CheckResolution(m, a1)
        a3 == CheckContainer(m, a2)
        a4 == CheckAudioCodec(m, a3)
        a5 == CheckColorSpace(m, a4)
    IN  [is_compliant |-> AllInfo(a5.violations),
         score |-> a5.score,
         violations |-> a5.violations,
         recommendations |-> a5.recommendations]

(***************************************************************************)
(* Paths (std::path::Path) and f64 comparisons                             *)
(***************************************************************************)
\* index of the last occurrence of the one-character string c in s, 0 if none
LastIndexOf(s, c) ==
    IF \E i \in 1..Len(s) : SubSeq(s, i, i) = c
    THEN CHOOSE i \in 1..Len(s) :
            /\ SubSeq(s, i, i) = c
            /\ \A j \in (i + 1)..Len(s) : SubSeq(s, j, j) # c
    ELSE 0

\* Path::file_name: the last component of the path
FileName(p) == SubSeq(p, LastIndexOf(p, "/") + 1, Len(p))

\* Path::extension of a file name: the text after its last dot; "" stands
\* for None (no dot, or only a leading dot)
Extension(name) ==
    IF LastIndexOf(name, ".") <= 1 THEN ""
    ELSE SubSeq(name, LastIndexOf(name, ".") + 1, Len(name))

\* Path::join
PathJoin(dir, name) == dir \o "/" \o name

\* f64 comparisons with a constant given in thousandths; false for NaN
FGt(f, k) == ~f.nan /\ f.milli > k

FLt(f, k) == ~f.nan /\ f.milli < k

FGe(f, k) == ~f.nan /\ f.milli >= k

FLe(f, k) == ~f.nan /\ f.milli <= k

(***************************************************************************)
(* detect_content_type                                                     *)
(***************************************************************************)
\* a plausible slip: the metadata rules are tried before the name rules
detect_content_type_fps_first(m, p) ==
    LET filename == ToLower(FileName(p))
    IN  IF FGt(m.fps, 50000) THEN "LiveAction"
        ELSE IF FLt(m.fps, 20000) THEN "ScreenCapture"
        ELSE IF \/ StrContains(filename, "screen")
                \/ StrContains(filename, "capture")
                \/ StrContains(filename, "recording")
        THEN "ScreenCapture"
        ELSE IF \/ StrContains(filename, "presentation")
                \/ StrContains(filename, "slide")
                \/ StrContains(filename, "demo")
        THEN "Presentation"
        ELSE IF \/ StrContains(filename, "cartoon")
                \/ StrContains(filename, "animated")
                \/ StrContains(filename, "anime")
        THEN "Animation"
        ELSE IF /\ StrContains(m.resolution, "1920x1080")
                /\ FGe(m.fps, 24000)
                /\ FLe(m.fps, 30000)
        THEN "LiveAction"
        ELSE "ScreenCapture"

\* a plausible slip: content that no rule recognises is left Unknown
detect_content_type_default_unknown(m, p) ==
    LET filename == ToLower(FileName(p))
    IN  IF \/ StrContains(filename, "screen")
           \/ StrContains(filename, "capture")
           \/ StrContains(filename, "recording")
        THEN "ScreenCapture"
        ELSE IF \/ StrContains(filename, "presentation")
                \/ StrContains(filename, "slide")
                \/ StrContains(filename, "demo")
        THEN "Presentation"
        ELSE IF \/ StrContains(filename, "cartoon")
                \/ StrContains(filename, "animated")
                \/ StrContains(filename, "anime")
        THEN "Animation"
        ELSE IF FGt(m.fps, 50000) THEN "LiveAction"
        ELSE IF FLt(m.fps, 20000) THEN "ScreenCapture"
        ELSE IF /\ StrContains(m.resolution, "1920x1080")
                /\ FGe(m.fps, 24000)
                /\ FLe(m.fps, 30000)
        THEN "LiveAction"
        ELSE "Unknown"

\* lines 1107-1143
detect_content_type(m, p) ==
    LET filename == ToLower(FileName(p))
    IN  IF \/ StrContains(filename, "screen")
           \/ StrContains(filename, "capture")
           \/ StrContains(filename, "recording")
        THEN "ScreenCapture"
        ELSE IF \/ StrContains(filename, "presentation")
                \/ StrContains(filename, "slide")
                \/ StrContains(filename, "demo")
        THEN "Presentation"
        ELSE IF \/ StrContains(filename, "cartoon")
                \/ StrContains(filename, "animated")
                \/ StrContains(filename, "anime")
        THEN "Animation"
        ELSE IF FGt(m.fps, 50000) THEN "LiveAction"
        ELSE IF FLt(m.fps, 20000) THEN "ScreenCapture"
        ELSE IF /\ StrContains(m.resolution, "1920x1080")
                /\ FGe(m.fps, 24000)
                /\ FLe(m.fps, 30000)
        THEN "LiveAction"
        ELSE "ScreenCapture"

(***************************************************************************)
(* The content-aware remediation planner                                   *)
(***************************************************************************)
\* lines 936-944
should_use_hw_decode(r) ==
    \/ Len(r.violations) > 2
    \/ AnyViolation(r, {"Resolution", "ColorSpace", "HDR"})

\* Path::file_stem of a file name: the text before its last dot
FileStem(name) ==
    IF Extension(name) = "" THEN name
    ELSE SubSeq(name, 1, LastIndexOf(name, ".") - 1)

\* lines 892-933: the suffix-per-violation output name of fix_video_compliance
generate_compliance_output_filename(input, r) ==
    LET stem == FileStem(FileName(input))
        ext == Extension(FileName(input))
        suffix == ".compliant"
                  \o (IF AnyViolation(r, {"Resolution"}) THEN ".scaled" ELSE "")
                  \o (IF AnyViolation(r, {"VideoCodec"}) THEN ".h264" ELSE "")
                  \o (IF AnyViolation(r, {"Audio", "AudioCodec"}) THEN ".aac" ELSE "")
                  \o (IF AnyViolation(r, {"ColorSpace", "HDR"}) THEN ".rec709" ELSE "")
    IN  stem \o suffix \o "." \o (IF ext = "" THEN "mp4" ELSE ext)

RECURSIVE FirstTarget720First(_, _)
\* a plausible slip: the 1280x720 test comes before the 1920x1080 test
FirstTarget720First(r, i) ==
    IF i > Len(r.violations) THEN ""
    ELSE IF /\ r.violations[i].category = "Resolution"
            /\ StrContains(r.violations[i].expected_value, "1280x720")
    THEN "1280:720"
    ELSE IF /\ r.violations[i].category = "Resolution"
            /\ StrContains(r.violations[i].expected_value, "1920x1080")
    THEN "1920:1080"
    ELSE FirstTarget720First(r, i + 1)

determine_target_resolution_720_first(r) ==
    IF FirstTarget720First(r, 1) # "" THEN FirstTarget720First(r, 1) ELSE "1920:1080"

RECURSIVE FirstTarget(_, _)
\* the loop of lines 1039-1048 from violation i on; "" when it finds nothing
FirstTarget(r, i) ==
    IF i > Len(r.violations) THEN ""
    ELSE IF /\ r.violations[i].category = "Resolution"
            /\ StrContains(r.violations[i].expected_value, "1920x1080")
    THEN "1920:1080"
    ELSE IF /\ r.violations[i].category = "Resolution"
            /\ StrContains(r.violations[i].expected_value, "1280x720")
    THEN "1280:720"
    ELSE FirstTarget(r, i + 1)

\* lines 1037-1052 (always Some)
determine_target_resolution(r) ==
    IF FirstTarget(r, 1) # "" THEN FirstTarget(r, 1) ELSE "1920:1080"

\* a plausible slip: an Info-level audio violation does not count
generate_audio_fixes_blocking_only(r) ==
    IF \E i \in 1..Len(r.violations) :
          /\ r.violations[i].category \in {"Audio", "AudioCodec"}
          /\ r.violations[i].severity # Info
    THEN <<"-c:a", "pcm_s24le", "-ar", "48000", "-ac", "2">>
    ELSE <<"-c:a", "copy">>

\* lines 1011-1034
generate_audio_fixes(r) ==
    IF AnyViolation(r, {"Audio", "AudioCodec"})
    THEN <<"-c:a", "pcm_s24le", "-ar", "48000", "-ac", "2">>
    ELSE <<"-c:a", "copy">>

\* lines 1286-1334: the quality table
ContentTuning(ct) ==
    CASE ct \in {"ScreenCapture", "Presentation"} ->
            <<"-preset", "p7", "-cq", "15", "-temporal-aq", "1", "-rc-lookahead", "32">>
      [] ct = "LiveAction" ->
            <<"-preset", "p5", "-cq", "18", "-spatial-aq", "1", "-temporal-aq", "1">>
      [] ct = "Animation" ->
            <<"-preset", "p6", "-cq", "16", "-aq-mode", "3">>
      [] OTHER ->
            <<"-preset", "p6", "-cq", "18">>

\* a plausible slip: a colour-space violation alone does not trigger the
\* re-encode
generate_optimized_video_fixes_no_color(r, ct, m) ==
    IF AnyViolation(r, {"VideoCodec", "Resolution"})
    THEN <<"-c:v", "h264_nvenc", "-profile:v", "high", "-pix_fmt", "yuv420p">>
         \o ContentTuning(ct)
         \o (IF AnyViolation(r, {"Resolution"})
             THEN <<"-vf", "scale=" \o determine_target_resolution(r)>>
             ELSE <<>>)
         \o (IF AnyViolation(r, {"ColorSpace", "HDR"})
             THEN <<"-colorspace", "bt709", "-color_primaries", "bt709",
                    "-color_trc", "bt709">>
             ELSE <<>>)
    ELSE <<"-c:v", "copy">>

\* lines 1261-1365
generate_optimized_video_fixes(r, ct, m) ==
    IF AnyViolation(r, {"VideoCodec", "Resolution", "ColorSpace", "HDR"})
    THEN <<"-c:v", "h264_nvenc", "-profile:v", "high", "-pix_fmt", "yuv420p">>
         \o ContentTuning(ct)
         \o (IF AnyViolation(r, {"Resolution"})
             THEN <<"-vf", "scale=" \o determine_target_resolution(r)>>
             ELSE <<>>)
         \o (IF AnyViolation(r, {"ColorSpace", "HDR"})
             THEN <<"-colorspace", "bt709", "-color_primaries", "bt709",
                    "-color_trc", "bt709">>
             ELSE <<>>)
    ELSE <<"-c:v", "copy">>

\* a plausible slip: the suffix-per-violation name is used here too
generate_optimized_output_filename_suffixed(input, r, ct) ==
    generate_compliance_output_filename(input, r)

\* lines 1251-1258: the input's file name, unchanged
generate_optimized_output_filename(input, r, ct) == FileName(input)

\* lines 1219-1240: the argument list of fix_video_compliance_optimized
OptimizedArgs(input, output_dir, r, m) ==
    LET ct == detect_content_type(m, input)
        output_path == PathJoin(output_dir, generate_optimized_output_filename(input, r, ct))
    IN  <<"-i", input>>
        \o (IF should_use_hw_decode(r) THEN <<"-hwaccel", "cuda">> ELSE <<>>)
        \o generate_optimized_video_fixes(r, ct, m)
        \o generate_audio_fixes(r)
        \o <<"-movflags", "+faststart", "-y", output_path>>

\* lines 947-1008: the video arguments of the legacy planner
generate_video_fixes(r) ==
    LET needs_codec_fix == AnyViolation(r, {"VideoCodec"})
        needs_resolution_fix == AnyViolation(r, {"Resolution"})
        needs_quality_fix == AnyViolation(r, {"ColorSpace", "HDR"})
    IN  IF needs_codec_fix \/ needs_resolution_fix \/ needs_quality_fix
        THEN <<"-c:v", "h264_nvenc", "-preset", "p7", "-cq", "18",
               "-profile:v", "high", "-pix_fmt", "yuv420p">>
             \o (IF needs_resolution_fix
                 THEN <<"-vf", "scale=" \o determine_target_resolution(r)>>
                 ELSE <<>>)
             \o (IF needs_quality_fix
                 THEN <<"-colorspace", "bt709", "-color_primaries", "bt709",
                        "-color_trc", "bt709">>
                 ELSE <<>>)
        ELSE <<"-c:v", "copy">>

\* lines 806-838: the argument list of fix_video_compliance
ComplianceArgs(input, output_dir, r) ==
    LET output_path == PathJoin(output_dir, generate_compliance_output_filename(input, r))
    IN  <<"-i", input>>
        \o (IF should_use_hw_decode(r) THEN <<"-hwaccel", "cuda">> ELSE <<>>)
        \o generate_video_fixes(r)
        \o generate_audio_fixes(r)
        \o <<"-movflags", "+faststart">>
        \o <<"-y", output_path>>

(***************************************************************************)
(* The Transcoder run on an argument list, and the Probe of what it wrote  *)
(***************************************************************************)
\* the argument following the first occurrence of flag, "" when flag is absent
ArgAfter(a, flag) ==
    IF \E i \in 1..(Len(a) - 1) : a[i] = flag
    THEN a[(CHOOSE i \in 1..(Len(a) - 1) :
                /\ a[i] = flag
                /\ \A j \in 1..(i - 1) : a[j] # flag) + 1]
    ELSE ""

RECURSIVE ReplaceChar(_, _, _)
ReplaceChar(s, c, d) ==
    IF Len(s) = 0 THEN ""
    ELSE (IF SubSeq(s, 1, 1) = c THEN d ELSE SubSeq(s, 1, 1))
         \o ReplaceChar(SubSeq(s, 2, Len(s)), c, d)

\* "scale=W:H" as the "WxH" the probe reports (analyze_video, lines 735-739)
ScaledResolution(vf) == ReplaceChar(SubSeq(vf, Len("scale=") + 1, Len(vf)), ":", "x")

\* the container analyze_video derives from a path (lines 722-727)
ContainerOf(p) ==
    IF Extension(FileName(p)) = "" THEN "unknown" ELSE ToLower(Extension(FileName(p)))

\* The metadata of the file ffmpeg writes for argument list a from an input
\* with metadata m: a stream is re-encoded to the codec the list names or
\* copied, scaled and colour-tagged as the list says, and the container is
\* that of the output path (the last argument).
TranscodedMetadata(m, a) ==
    [codec |-> IF ArgAfter(a, "-c:v") = "h264_nvenc" THEN "h264" ELSE m.codec,
     resolution |-> IF ArgAfter(a, "-vf") # ""
                    THEN ScaledResolution(ArgAfter(a, "-vf"))
                    ELSE m.resolution,
     fps |-> m.fps,
     audio_codec |-> IF ArgAfter(a, "-c:a") = "copy" THEN m.audio_codec
                     ELSE ArgAfter(a, "-c:a"),
     container |-> ContainerOf(a[Len(a)]),
     color_space |-> IF ArgAfter(a, "-colorspace") # ""
                     THEN ArgAfter(a, "-colorspace")
                     ELSE m.color_space]

\* lines 1071-1093: Err(Io) when the spawn fails, Err(FFmpeg) on an
\* unsuccessful exit status, Ok otherwise.  run = [spawned, code]; code -1
\* stands for a process ended by a signal (status.code() == None).
execute_compliance_conversion(run) ==
    IF ~run.spawned THEN "Io"
    ELSE IF run.code = 0 THEN "none"
    ELSE "FFmpeg"

(***************************************************************************)
(* Inputs                                                                  *)
(***************************************************************************)
Fps(milli) == [nan |-> FALSE, milli |-> milli]

NaN == [nan |-> TRUE, milli |-> 0]

NoResult == [is_compliant |-> FALSE, score |-> 0, violations |-> <<>>,
             recommendations |-> <<>>]

NoMetadata == [codec |-> "", resolution |-> "", fps |-> Fps(0), audio_codec |-> "",
               container |-> "", color_space |-> ""]

Codecs == {"h264", "mpeg4", "H264", ""}

Resolutions == {"1920x1080", "1280x720", "1360x768", "640x480", "1080x1350",
                "1920x10800"}

Containers == {"mp4", "mkv", "MKV"}

AudioCodecs == {"pcm", "alac", "aac", "mp3", "pcm_s24le", "none"}

ColorSpaces == {"bt709", "unknown", "bt2020", "REC2020", "hdr10+", "bt2020-hlg",
                "dolby_vision/hlg"}

FrameRates == {Fps(25000), Fps(120000)}

Paths == {"/videos/video.mp4", "/videos/screen_recording.mp4", "/videos/clip.mkv"}

OutputDir == "/videos/H264"

\* outcomes of running the transcoder
Runs == {[spawned |-> FALSE, code |-> 0]}
        \cup {[spawned |-> TRUE, code |-> c] : c \in {0, 1, 130, -1}}

MetadataSet(codecs, resolutions, rates, audios, conts, colors) ==
    [codec : codecs, resolution : resolutions, fps : rates, audio_codec : audios,
     container : conts, color_space : colors]

(***************************************************************************)
(* The pipeline of one asset: process_single_file_batch                    *)
(***************************************************************************)
Init ==
    /\ metadata \in MetadataSet(Codecs, Resolutions, FrameRates, AudioCodecs,
                                Containers, ColorSpaces)
    /\ path \in Paths
    /\ result = NoResult
    /\ content_type = "none"
    /\ args = <<>>
    /\ output = NoMetadata
    /\ recheck = NoResult
    /\ err = "none"
    /\ pc = "probed"
    /\ NoAggregates
    /\ NoDirectory
    /\ NoTranscoder

\* line 1468: compliance_engine.analyze_compliance(&metadata)
Analyze ==
    /\ pc = "probed"
    /\ result' = analyze_compliance(metadata)
    /\ pc' = "analyzed"
    /\ UNCHANGED <<metadata, path, content_type, args, output, recheck, err>>
    /\ UNCHANGED <<transcoderVars, aggregateVars, directoryVars>>

\* lines 1470-1475: a compliant file is skipped, Ok(None)
SkipCompliant ==
    /\ pc = "analyzed"
    /\ result.is_compliant
    /\ pc' = "skipped"
    /\ UNCHANGED <<metadata, path, result, content_type, args, output, recheck, err>>
    /\ UNCHANGED <<transcoderVars, aggregateVars, directoryVars>>

\* lines 1477-1485 with fix_video_compliance_optimized (1189-1248): classify,
\* build the argument list, run the transcoder on it
FixOptimized ==
    /\ pc = "analyzed"
    /\ ~result.is_compliant
    /\ \E run \in Runs :
        LET a == OptimizedArgs(path, OutputDir, result, metadata)
            e == execute_compliance_conversion(run)
        IN  /\ content_type' = detect_content_type(metadata, path)
            /\ args' = a
            /\ err' = e
            /\ output' = IF e = "none" THEN TranscodedMetadata(metadata, a) ELSE NoMetadata
            /\ pc' = IF e = "none" THEN "fixed" ELSE "failed"
    /\ UNCHANGED <<metadata, path, result, recheck>>
    /\ UNCHANGED <<transcoderVars, aggregateVars, directoryVars>>

\* the written file analysed again (lines 1464-1468 on the output)
Reanalyze ==
    /\ pc = "fixed"
    /\ recheck' = analyze_compliance(output)
    /\ pc' = "rechecked"
    /\ UNCHANGED <<metadata, path, result, content_type, args, output, err>>
    /\ UNCHANGED <<transcoderVars, aggregateVars, directoryVars>>

Next == Analyze \/ SkipCompliant \/ FixOptimized \/ Reanalyze

Spec == Init /\ [][Next]_vars

(***************************************************************************)
(* The classifier on its own: detect_content_type over file names, frame   *)
(* rates and resolutions                                                   *)
(***************************************************************************)
\* whole frame rates 0..MaxFps are tried, with the fractional ones below
MaxFps == 60

ClassifyRates ==
    {Fps(k * 1000) : k \in 0..MaxFps}
    \cup {Fps(19999), Fps(23976), Fps(29970), Fps(30001), Fps(50001), Fps(120000), NaN}

ClassifyResolutions == {"1920x1080", "1280x720", "1080x1920", "1920x10800", "11920x1080"}

ClassifyPaths ==
    {"/videos/video.mp4", "/videos/screen_recording.mp4", "/videos/Screen Recording 1.mp4",
     "/videos/demo_capture.mp4", "/videos/animated_slides.mp4", "/videos/anime.mp4",
     "/videos/product_demo.mp4", "/screen/clip.avi"}

InitClassify ==
    /\ metadata \in MetadataSet({"h264"}, ClassifyResolutions, ClassifyRates, {"pcm"},
                                {"mp4"}, {"bt709"})
    /\ path \in ClassifyPaths
    /\ result = NoResult
    /\ content_type = "none"
    /\ args = <<>>
    /\ output = NoMetadata
    /\ recheck = NoResult
    /\ err = "none"
    /\ pc = "probed"
    /\ NoAggregates
    /\ NoDirectory
    /\ NoTranscoder

\* detect_content_type(&metadata, path), lines 1107-1143
Classify ==
    /\ pc = "probed"
    /\ content_type' = detect_content_type(metadata, path)
    /\ pc' = "classified"
    /\ UNCHANGED <<metadata, path, result, args, output, recheck, err>>
    /\ UNCHANGED <<transcoderVars, aggregateVars, directoryVars>>

NextClassify == Classify

SpecClassify == InitClassify /\ [][NextClassify]_vars

(***************************************************************************)
(* Properties                                                              *)
(***************************************************************************)
\* the asset has been analysed: result holds analyze_compliance(metadata)
Analyzed == pc # "probed"

\* the categories (severities) of the violations of r, as a sequence
CategoriesOf(r) == [i \in 1..Len(r.violations) |-> r.violations[i].category]

\* the severities of the violations of r that have category cat
SeveritiesOf(r, cat) ==
    {r.violations[i].severity : i \in {j \in 1..Len(r.violations) :
                                          r.violations[j].category = cat}}

\* C1: for every metadata, analyze_compliance returns 0 <= score <= 100,
\* also when every rule fires (20+25+15+15+30 = 105 > 100); the same holds
\* of the analysis of a written file.
C1_ScoreInRange ==
    /\ Analyzed => result.score \in 0..100
    /\ pc = "rechecked" => recheck.score \in 0..100

\* C1 witness: all five rules fired and the deductions, 105, stopped at 0
C1_Witness ==
    /\ pc = "analyzed"
    /\ Len(result.violations) = 5
    /\ result.violations[4].severity = Warning
    /\ result.violations[5].description = "HDR content not supported by delivery pipeline"
    /\ result.score = 0

\* C2: is_compliant is true iff every violation has severity Info: no
\* violation is compliant, a Warning or Critical one is not.
C2_CompliantIffAllInfo ==
    Analyzed =>
        (result.is_compliant <=>
            ~\E i \in 1..Len(result.violations) :
                result.violations[i].severity \in {Warning, Critical})

\* C2 witness: a compliant result whose only violation is an Info one
C2_Witness ==
    /\ pc = "skipped"
    /\ result.is_compliant
    /\ Len(result.violations) = 1
    /\ result.violations[1].severity = Info

\* C3 (as claimed): the file written from the plan of a non-compliant asset
\* (an asset whose container is that of its file name, as the probe reports
\* it) is found compliant when it is analysed again.
C3_PlanBringsCompliance ==
    (pc = "rechecked" /\ metadata.container = ContainerOf(path)) => recheck.is_compliant

\* the deductions of the five rule dimensions as the catalog states them
CodecDeduction(m) == IF VecContains(preferred_codecs, m.codec) THEN 0 ELSE 20

ResolutionDeduction(m) ==
    IF VecContains(preferred_resolutions, m.resolution) THEN 0
    ELSE IF VecContains(acceptable_resolutions, m.resolution) THEN 10
    ELSE 25

ContainerDeduction(m) ==
    IF ToLower(m.container) \in {unsupported_containers[i] :
                                    i \in 1..Len(unsupported_containers)}
    THEN 15 ELSE 0

AudioDeduction(m) ==
    IF VecContains(audio_acceptable_codecs, m.audio_codec) THEN 5
    ELSE IF VecContains(audio_preferred_codecs, m.audio_codec) THEN 0
    ELSE 15

\* the colour space names, in any letter case, a term of the list
NamesTerm(m, terms) ==
    \E i \in 1..Len(terms) : StrContains(ToLower(m.color_space), terms[i])

ColorDeduction(m) ==
    IF NamesTerm(m, hdr_restrictions) THEN 30
    ELSE IF NamesTerm(m, unsupported_color_spaces) THEN 25
    ELSE 0

TotalDeduction(m) ==
    CodecDeduction(m) + ResolutionDeduction(m) + ContainerDeduction(m)
        + AudioDeduction(m) + ColorDeduction(m)

Max0(n) == IF n < 0 THEN 0 ELSE n

\* C4: the score equals max(0, 100 - D), D the sum of the deductions of the
\* rules that fire: 20 codec; 25 / 10 resolution; 15 for an unsupported
\* lower-cased container; 15 / 5 audio; 30 for an HDR term, otherwise 25 for
\* an unsupported colour space (terms matched in the lower-cased colour
\* space, as the engine's rule 5 does).
C4_ScoreIsHundredMinusDeductions ==
    Analyzed => result.score = Max0(100 - TotalDeduction(metadata))

\* C4 witness: the example of the claim (mpeg4, mkv, bt2020, aac, 1920x1080),
\* 100 - 20 - 15 - 5 - 25 = 35, which is at most 40
C4_Witness ==
    /\ pc = "analyzed"
    /\ metadata.codec = "mpeg4"
    /\ metadata.container = "mkv"
    /\ metadata.color_space = "bt2020"
    /\ metadata.audio_codec = "aac"
    /\ metadata.resolution = "1920x1080"
    /\ result.score = 35

\* the place of a category in the rule order
RuleOrder == <<"VideoCodec", "Resolution", "Container", "AudioCodec", "HDR">>

RankOf(cat) == CHOOSE k \in 1..Len(RuleOrder) : RuleOrder[k] = cat

\* C5: the categories of the violations, in list order, are a subsequence of
\* [VideoCodec, Resolution, Container, AudioCodec, HDR]: at most one
\* violation per dimension, at most five in all, in rule order.
C5_CategoriesInRuleOrder ==
    Analyzed =>
        /\ Len(result.violations) <= 5
        /\ \A i \in 1..Len(result.violations) :
              VecContains(RuleOrder, result.violations[i].category)
        /\ \A i, j \in 1..Len(result.violations) :
              i < j => RankOf(result.violations[i].category)
                           < RankOf(result.violations[j].category)

\* C5 witness: all five dimensions violated, listed in rule order
C5_Witness ==
    /\ pc = "analyzed"
    /\ CategoriesOf(result) = RuleOrder

\* the number of violations of r with category cat
CountOf(r, cat) ==
    Cardinality({i \in 1..Len(r.violations) : r.violations[i].category = cat})

\* C6: a colour space naming both an HDR-restriction term and an
\* unsupported-colour-space term gives exactly one HDR violation and the
\* deduction of 30, never 25 more; no colour space gives two HDR violations.
C6_HdrShortCircuit ==
    Analyzed =>
        /\ CountOf(result, "HDR") <= 1
        /\ (NamesTerm(metadata, hdr_restrictions)
                /\ NamesTerm(metadata, unsupported_color_spaces)) =>
              /\ CountOf(result, "HDR") = 1
              /\ result.violations[Len(result.violations)].description
                    = "HDR content not supported by delivery pipeline"
              /\ result.score = Max0(100 - (CodecDeduction(metadata)
                    + ResolutionDeduction(metadata) + ContainerDeduction(metadata)
                    + AudioDeduction(metadata) + 30))

\* C6 witness: "bt2020-hlg" names a term of each list; with nothing else
\* wrong the score is 70
C6_Witness ==
    /\ pc = "analyzed"
    /\ metadata.color_space = "bt2020-hlg"
    /\ CountOf(result, "HDR") = 1
    /\ result.score = 70

\* C7: the severity of each violation is that of its rule.
C7_SeverityByRule ==
    Analyzed =>
        /\ SeveritiesOf(result, "VideoCodec")
              = IF VecContains(preferred_codecs, metadata.codec) THEN {} ELSE {Critical}
        /\ SeveritiesOf(result, "Resolution")
              = IF VecContains(preferred_resolutions, metadata.resolution) THEN {}
                ELSE IF VecContains(acceptable_resolutions, metadata.resolution)
                THEN {Warning}
                ELSE {Critical}
        /\ SeveritiesOf(result, "Container")
              = IF ContainerDeduction(metadata) > 0 THEN {Critical} ELSE {}
        /\ SeveritiesOf(result, "AudioCodec")
              = IF VecContains(audio_preferred_codecs, metadata.audio_codec) THEN {}
                ELSE IF VecContains(audio_acceptable_codecs, metadata.audio_codec)
                THEN {Info}
                ELSE {Warning}
        /\ SeveritiesOf(result, "HDR")
              = IF NamesTerm(metadata, hdr_restrictions)
                   \/ NamesTerm(metadata, unsupported_color_spaces)
                THEN {Critical} ELSE {}

\* C7 witness: an acceptable resolution (Warning) with an acceptable audio
\* codec (Info) and an unsupported container (Critical)
C7_Witness ==
    /\ pc = "analyzed"
    /\ metadata.resolution = "1360x768"
    /\ metadata.audio_codec = "aac"
    /\ SeveritiesOf(result, "Resolution") = {Warning}
    /\ SeveritiesOf(result, "AudioCodec") = {Info}
    /\ SeveritiesOf(result, "Container") = {Critical}

\* the metadata meets the delivery standards in every dimension the catalog
\* lists values for
MeetsStandards(m) ==
    /\ VecContains(preferred_codecs, m.codec)
    /\ VecContains(preferred_resolutions, m.resolution)
    /\ VecContains(containers, m.container)
    /\ VecContains(audio_preferred_codecs, m.audio_codec)
    /\ VecContains(color_spaces, m.color_space)

\* C8 (as claimed): 120 fps, not a preferred frame rate, is penalised when
\* every other field meets the standards: score below 100 or a violation.
C8_HighFrameRatePenalised ==
    (/\ Analyzed
     /\ metadata.fps = Fps(120000)
     /\ ~VecContains(preferred_frame_rates, metadata.fps.milli)
     /\ MeetsStandards(metadata))
        => (result.score < 100 \/ Len(result.violations) > 0)

\* the lower-cased file name names a word of the list
NameHas(words) ==
    \E w \in words : StrContains(ToLower(FileName(path)), w)

ScreenWords == {"screen", "capture", "recording"}

PresentationWords == {"presentation", "slide", "demo"}

AnimationWords == {"cartoon", "animated", "anime"}

NoNameRule ==
    ~NameHas(ScreenWords) /\ ~NameHas(PresentationWords) /\ ~NameHas(AnimationWords)

\* C9: detect_content_type is an ordered cascade, first match wins: the
\* name rules (screen words, then presentation words, then animation words,
\* looked for in the lower-cased file name) come before the metadata rules
\* (fps > 50, then fps < 20, then the 1080p rule, then ScreenCapture).
C9_OrderedCascade ==
    pc = "classified" =>
        /\ NameHas(ScreenWords) => content_type = "ScreenCapture"
        /\ (~NameHas(ScreenWords) /\ NameHas(PresentationWords))
              => content_type = "Presentation"
        /\ (~NameHas(ScreenWords) /\ ~NameHas(PresentationWords)
                /\ NameHas(AnimationWords))
              => content_type = "Animation"
        /\ (NoNameRule /\ FGt(metadata.fps, 50000)) => content_type = "LiveAction"
        /\ (NoNameRule /\ ~FGt(metadata.fps, 50000) /\ FLt(metadata.fps, 20000))
              => content_type = "ScreenCapture"
        /\ (NoNameRule /\ ~FGt(metadata.fps, 50000) /\ ~FLt(metadata.fps, 20000)) =>
              /\ content_type \in {"LiveAction", "ScreenCapture"}
              /\ (metadata.resolution = "1920x1080" /\ FGe(metadata.fps, 24000)
                      /\ FLe(metadata.fps, 30000))
                    => content_type = "LiveAction"
              /\ ~(FGe(metadata.fps, 24000) /\ FLe(metadata.fps, 30000))
                    => content_type = "ScreenCapture"
              /\ ~StrContains(metadata.resolution, "1920x1080")
                    => content_type = "ScreenCapture"

\* C9 witness: "screen_recording" at 60 fps is ScreenCapture, not LiveAction
C9_Witness ==
    /\ pc = "classified"
    /\ StrContains(FileName(path), "screen_recording")
    /\ metadata.fps = Fps(60000)
    /\ content_type = "ScreenCapture"

\* C10 (as claimed): with no name rule and 20 <= fps <= 50 the type is
\* LiveAction iff the resolution is exactly 1920x1080 and 24 <= fps <= 30;
\* any other resolution string gives ScreenCapture.
C10_ExactResolution ==
    (/\ pc = "classified"
     /\ NoNameRule
     /\ FGe(metadata.fps, 20000)
     /\ FLe(metadata.fps, 50000))
        => (content_type = "LiveAction" <=>
                (/\ metadata.resolution = "1920x1080"
                 /\ FGe(metadata.fps, 24000)
                 /\ FLe(metadata.fps, 30000)))

\* the category whose rule pushes the recommendation text rec
RecommendedBy(rec) ==
    CASE rec = "Convert to H.264 codec for optimal compatibility" -> "VideoCodec"
      [] rec = "Resize to 1920x1080 or 1280x720 for standard content" -> "Resolution"
      [] rec = "Convert to MP4 or MOV container" -> "Container"
      [] rec = "Convert audio to PCM or ALAC for highest quality" -> "AudioCodec"
      [] rec = "Convert to SDR (Rec. 709) color space" -> "HDR"
      [] OTHER -> "none"

\* the violations of r that block compliance (Warning or Critical)
Blocking(r) ==
    {i \in 1..Len(r.violations) : r.violations[i].severity \in {Warning, Critical}}

\* C11: recommendations come only from rules that produced a Warning or
\* Critical violation: each recommendation is that of one such violation of
\* the same result (no two of the same one), a compliant result has none,
\* and there are never more recommendations than blocking violations.
C11_RecommendationsOnlyFromBlocking ==
    Analyzed =>
        /\ \A i \in 1..Len(result.recommendations) :
              \E j \in Blocking(result) :
                  result.violations[j].category = RecommendedBy(result.recommendations[i])
        /\ \A i, j \in 1..Len(result.recommendations) :
              i # j => result.recommendations[i] # result.recommendations[j]
        /\ result.is_compliant => result.recommendations = <<>>
        /\ Len(result.recommendations) <= Cardinality(Blocking(result))

\* C11 witness: a codec Critical, an acceptable-resolution Warning and an
\* acceptable-audio Info give three violations and one recommendation
C11_Witness ==
    /\ pc = "analyzed"
    /\ Len(result.violations) = 3
    /\ Cardinality(Blocking(result)) = 2
    /\ result.violations[3].severity = Info
    /\ Len(result.recommendations) = 1

(***************************************************************************)
(* The planners on their own: fix_video_compliance_optimized and           *)
(* fix_video_compliance handed any ComplianceResult, as a caller of the    *)
(* library may build one                                                   *)
(***************************************************************************)
\* longest violation list handed to a planner
MaxViolations == 3

PlanViolations ==
    {Violation(Critical, "VideoCodec", "Test violation", "mpeg4", "h264"),
     Violation(Critical, "Resolution", "Resolution not supported", "640x480", "1280x720"),
     Violation(Warning, "Resolution", "Resolution acceptable but not preferred", "1360x768",
               "Preferred: " \o Join(preferred_resolutions, ", ")),
     Violation(Critical, "Resolution", "Resolution not supported", "7680x4320", "3840x2160"),
     Violation(Critical, "Container", "Container format not supported", "mkv", "mp4, mov"),
     Violation(Info, "AudioCodec", "Audio codec is acceptable but not preferred", "aac",
               "Preferred: pcm, alac"),
     Violation(Warning, "Audio", "Audio sample rate not supported", "22050", "44100, 48000"),
     Violation(Critical, "ColorSpace", "Color space not supported", "smpte170m", "bt709"),
     Violation(Critical, "HDR", "HDR content not supported by delivery pipeline", "hdr10",
               "Rec. 709 (SDR)")}

\* the lists of up to MaxViolations violations, none listed twice
ViolationLists ==
    {vs \in UNION {[1..n -> PlanViolations] : n \in 0..MaxViolations} :
        \A i, j \in 1..Len(vs) : i # j => vs[i] # vs[j]}

\* a ComplianceResult built by hand around a violation list
BuiltResult(vs) ==
    [is_compliant |-> AllInfo(vs), score |-> 60, violations |-> vs,
     recommendations |-> <<>>]

PlanPaths == {"/videos/video.mp4", "/videos/screen_demo.avi"}

PlanMetadata ==
    {[codec |-> "mpeg4", resolution |-> "1920x1080", fps |-> f,
      audio_codec |-> "aac", container |-> "mp4", color_space |-> "bt709"] :
        f \in {Fps(25000), Fps(15000)}}

InitPlan ==
    /\ metadata \in PlanMetadata
    /\ path \in PlanPaths
    /\ result \in {BuiltResult(vs) : vs \in ViolationLists}
    /\ content_type = "none"
    /\ args = <<>>
    /\ output = NoMetadata
    /\ recheck = NoResult
    /\ err = "none"
    /\ pc = "analyzed"
    /\ NoAggregates
    /\ NoDirectory
    /\ NoTranscoder

\* fix_video_compliance (lines 796-846): build the argument list with the
\* suffixed output name, run the transcoder on it
FixCompliance ==
    /\ pc = "analyzed"
    /\ ~result.is_compliant
    /\ \E run \in Runs :
        LET a == ComplianceArgs(path, OutputDir, result)
            e == execute_compliance_conversion(run)
        IN  /\ args' = a
            /\ err' = e
            /\ output' = IF e = "none" THEN TranscodedMetadata(metadata, a) ELSE NoMetadata
            /\ pc' = IF e = "none" THEN "fixed_legacy" ELSE "failed_legacy"
    /\ UNCHANGED <<metadata, path, result, content_type, recheck>>
    /\ UNCHANGED <<transcoderVars, aggregateVars, directoryVars>>

NextPlan == FixOptimized \/ FixCompliance

SpecPlan == InitPlan /\ [][NextPlan]_vars

(***************************************************************************)
(* Claims about the remediation plan                                       *)
(***************************************************************************)
\* an argument list has been built by one of the two planners
PlannedOptimized == pc \in {"fixed", "failed"}
PlannedCompliance == pc \in {"fixed_legacy", "failed_legacy"}
Planned == PlannedOptimized \/ PlannedCompliance

\* position of the first occurrence of flag in a, 0 when absent
IndexOf(a, flag) ==
    IF \E i \in 1..Len(a) : a[i] = flag
    THEN CHOOSE i \in 1..Len(a) : a[i] = flag /\ \A j \in 1..(i - 1) : a[j] # flag
    ELSE 0

HasArg(a, flag) == IndexOf(a, flag) # 0

\* the arguments from -c:v up to, not including, -c:a
VideoSegment(a) == SubSeq(a, IndexOf(a, "-c:v"), IndexOf(a, "-c:a") - 1)

\* the arguments from -c:a up to, not including, -movflags
AudioSegment(a) == SubSeq(a, IndexOf(a, "-c:a"), IndexOf(a, "-movflags") - 1)

ColourFlags == {"-colorspace", "-color_primaries", "-color_trc"}

\* C12: in a plan of either planner the video stream is re-encoded with
\* h264_nvenc, profile high, yuv420p exactly when some violation is of category
\* VideoCodec, Resolution, ColorSpace or HDR, and is otherwise exactly
\* "-c:v copy"; the three bt709 colour arguments are present exactly when a
\* ColorSpace or HDR violation exists.
C12_VideoDirective ==
    Planned =>
        LET seg == VideoSegment(args)
            needs == AnyViolation(result, {"VideoCodec", "Resolution", "ColorSpace", "HDR"})
            colour == AnyViolation(result, {"ColorSpace", "HDR"})
        IN  /\ needs => /\ seg[1] = "-c:v" /\ seg[2] = "h264_nvenc"
                        /\ ArgAfter(seg, "-profile:v") = "high"
                        /\ ArgAfter(seg, "-pix_fmt") = "yuv420p"
            /\ ~needs => seg = <<"-c:v", "copy">>
            /\ colour => \A f \in ColourFlags : ArgAfter(args, f) = "bt709"
            /\ ~colour => \A f \in ColourFlags : ~HasArg(args, f)

\* C12's case: a colour-space violation alone makes the content-aware planner
\* re-encode the video, with the colour arguments
C12_Witness ==
    /\ PlannedOptimized
    /\ Len(result.violations) = 1
    /\ result.violations[1].category = "ColorSpace"
    /\ ArgAfter(args, "-c:v") = "h264_nvenc"
    /\ ArgAfter(args, "-color_trc") = "bt709"

\* C13: in a plan the audio stream is re-encoded to pcm_s24le, 48000 Hz, 2
\* channels exactly when some violation is of category Audio or AudioCodec,
\* whatever its severity, and is otherwise exactly "-c:a copy".
C13_AudioDirective ==
    Planned =>
        AudioSegment(args) =
            IF AnyViolation(result, {"Audio", "AudioCodec"})
            THEN <<"-c:a", "pcm_s24le", "-ar", "48000", "-ac", "2">>
            ELSE <<"-c:a", "copy">>

\* C13's case: the only audio violation is of Info severity and the audio is
\* re-encoded all the same
C13_Witness ==
    /\ PlannedOptimized
    /\ \E i \in 1..Len(result.violations) : result.violations[i].category = "AudioCodec"
    /\ \A i \in 1..Len(result.violations) :
          result.violations[i].category \in {"Audio", "AudioCodec"}
              => result.violations[i].severity = Info
    /\ ArgAfter(args, "-c:a") = "pcm_s24le"

\* the target the resolution fix is to pick: from the first Resolution
\* violation whose expected value names a known size
ExpectedTarget(r) ==
    LET vs == r.violations
        named == {i \in 1..Len(vs) :
                     /\ vs[i].category = "Resolution"
                     /\ \/ StrContains(vs[i].expected_value, "1920x1080")
                        \/ StrContains(vs[i].expected_value, "1280x720")}
    IN  IF named = {} THEN "1920:1080"
        ELSE LET first == CHOOSE i \in named : \A j \in named : i <= j
             IN  IF StrContains(vs[first].expected_value, "1920x1080")
                 THEN "1920:1080" ELSE "1280:720"

\* C14: a scale directive is in the plan exactly when a Resolution violation
\* exists; its target comes from the first Resolution violation that names a
\* known size, 1920:1080 before 1280:720, and is 1920:1080 when none does.
C14_ScaleTarget ==
    Planned =>
        /\ HasArg(args, "-vf") <=> AnyViolation(result, {"Resolution"})
        /\ HasArg(args, "-vf") =>
              /\ ArgAfter(args, "-vf") = "scale=" \o ExpectedTarget(result)
              /\ IndexOf(args, "-c:v") < IndexOf(args, "-vf")
              /\ IndexOf(args, "-vf") < IndexOf(args, "-c:a")

\* C14's case: the first Resolution violation names no known size, the second
\* names 1280x720 alone, the third names both
C14_Witness ==
    /\ PlannedOptimized
    /\ Len(result.violations) = 3
    /\ \A i \in 1..3 : result.violations[i].category = "Resolution"
    /\ result.violations[1].expected_value = "3840x2160"
    /\ result.violations[2].expected_value = "1280x720"
    /\ StrContains(result.violations[3].expected_value, "1920x1080")
    /\ ArgAfter(args, "-vf") = "scale=1280:720"

LimbBits == 20
LimbBase == 2 ^ LimbBits
SignificandBits == 53

BigFromSmall(x) == IF x = 0 THEN <<>> ELSE <<x>>

RECURSIVE MulCarry(_, _, _, _)
MulCarry(a, k, i, c) ==
    IF i > Len(a) THEN BigFromSmall(c)
    ELSE <<(a[i] * k + c) % LimbBase>> \o MulCarry(a, k, i + 1, (a[i] * k + c) \div LimbBase)

\* a * k for 0 < k < 2048
BigMulSmall(a, k) == MulCarry(a, k, 1, 0)

RECURSIVE AddCarry(_, _, _, _)
AddCarry(a, b, i, c) ==
    IF i > Len(a) /\ i > Len(b) THEN BigFromSmall(c)
    ELSE LET x == IF i <= Len(a) THEN a[i] ELSE 0
             y == IF i <= Len(b) THEN b[i] ELSE 0
         IN  <<(x + y + c) % LimbBase>> \o AddCarry(a, b, i + 1, (x + y + c) \div LimbBase)

BigAdd(a, b) == AddCarry(a, b, 1, 0)

RECURSIVE StripZeros(_)
StripZeros(a) ==
    IF a = <<>> \/ a[Len(a)] # 0 THEN a ELSE StripZeros(SubSeq(a, 1, Len(a) - 1))

RECURSIVE DivRem(_, _, _)
\* quotient limbs i..Len(a) and the remainder of a by n, for 0 < n < 2048
DivRem(a, n, i) ==
    IF i > Len(a) THEN [q |-> <<>>, r |-> 0]
    ELSE LET up == DivRem(a, n, i + 1)
             cur == up.r * LimbBase + a[i]
         IN  [q |-> <<cur \div n>> \o up.q, r |-> cur % n]

BigDivSmall(a, n) ==
    LET d == DivRem(a, n, 1) IN [q |-> StripZeros(d.q), r |-> d.r]

RECURSIVE SmallBitLen(_)
SmallBitLen(x) == IF x = 0 THEN 0 ELSE 1 + SmallBitLen(x \div 2)

BitLen(a) ==
    IF a = <<>> THEN 0 ELSE LimbBits * (Len(a) - 1) + SmallBitLen(a[Len(a)])

RECURSIVE BigShl(_, _)
\* a * 2^t
BigShl(a, t) ==
    IF t = 0 \/ a = <<>> THEN a
    ELSE IF t >= LimbBits THEN <<0>> \o BigShl(a, t - LimbBits)
    ELSE IF t >= 10 THEN BigShl(BigMulSmall(a, 2 ^ 10), t - 10)
    ELSE BigMulSmall(a, 2 ^ t)

IsOdd(a) == a # <<>> /\ a[1] % 2 = 1

\* the f64 nearest to (n + f) * 2^e, where 0 <= f < 1 and f > 0 iff sticky;
\* n has at most 63 bits, and more than 53 when sticky
RoundToF64(n, sticky, e) ==
    LET len == BitLen(n)
        t == len - SignificandBits
    IN  IF n = <<>> THEN F64Zero
        ELSE IF t <= 0 THEN [m |-> BigShl(n, -t), e |-> e + t]
        ELSE LET d == BigDivSmall(n, 2 ^ t)
                 half == 2 ^ (t - 1)
                 up == \/ d.r > half
                       \/ d.r = half /\ (sticky \/ IsOdd(d.q))
                 q == IF up THEN BigAdd(d.q, <<1>>) ELSE d.q
             IN  IF BitLen(q) > SignificandBits
                 THEN [m |-> BigDivSmall(q, 2).q, e |-> e + t + 1]
                 ELSE [m |-> q, e |-> e + t]

\* `x as f64` of an unsigned integer below LimbBase
F64FromInt(x) == RoundToF64(BigFromSmall(x), FALSE, 0)

\* x * (k as f64), 0 <= k < 1024
F64MulInt(x, k) ==
    IF k = 0 \/ x = F64Zero THEN F64Zero
    ELSE RoundToF64(BigMulSmall(x.m, k), FALSE, x.e)

\* x + (s as f64) for x = 0.0 or 0.5 <= x < 2^53, 0 <= s < 256
F64AddInt(x, s) ==
    IF x = F64Zero THEN F64FromInt(s)
    ELSE RoundToF64(BigAdd(x.m, BigShl(BigFromSmall(s), -x.e)), FALSE, x.e)

GuardBits == 8

\* x / (n as f64), 0 < n < 2^(GuardBits - 1)
F64DivInt(x, n) ==
    IF x = F64Zero THEN F64Zero
    ELSE LET d == BigDivSmall(BigMulSmall(x.m, 2 ^ GuardBits), n)
         IN  RoundToF64(d.q, d.r # 0, x.e - GuardBits)

\* the next f64 above x > 0
F64NextUp(x) == RoundToF64(BigAdd(x.m, <<1>>), FALSE, x.e)

(***************************************************************************)
(* ComplianceSummary (lines 1636-1674)                                     *)
(***************************************************************************)
\* a plausible slip: the old mean is weighted by the new count
RunningMeanNoDecrement(average_score, total_files, score) ==
    F64DivInt(F64AddInt(F64MulInt(average_score, total_files), score), total_files)

\* lines 1655-1657, total_files already incremented
RunningMean(average_score, total_files, score) ==
    F64DivInt(F64AddInt(F64MulInt(average_score, total_files - 1), score), total_files)

CountSeverity(r, sev) ==
    Cardinality({i \in 1..Len(r.violations) : r.violations[i].severity = sev})

\* a plausible slip: Info violations are not counted
add_result_without_info(s, r, filename) ==
    [total_files |-> s.total_files + 1,
     average_score |-> RunningMean(s.average_score, s.total_files + 1, r.score),
     files_by_score |-> Append(s.files_by_score, <<filename, r.score>>),
     compliant_files |-> s.compliant_files + (IF r.is_compliant THEN 1 ELSE 0),
     non_compliant_files |-> s.non_compliant_files + (IF r.is_compliant THEN 0 ELSE 1),
     critical_violations |-> s.critical_violations + CountSeverity(r, Critical),
     warning_violations |-> s.warning_violations + CountSeverity(r, Warning),
     info_violations |-> s.info_violations]

\* ComplianceSummary::add_result, lines 1653-1674
add_result(s, r, filename) ==
    [total_files |-> s.total_files + 1,
     average_score |-> RunningMean(s.average_score, s.total_files + 1, r.score),
     files_by_score |-> Append(s.files_by_score, <<filename, r.score>>),
     compliant_files |-> s.compliant_files + (IF r.is_compliant THEN 1 ELSE 0),
     non_compliant_files |-> s.non_compliant_files + (IF r.is_compliant THEN 0 ELSE 1),
     critical_violations |-> s.critical_violations + CountSeverity(r, Critical),
     warning_violations |-> s.warning_violations + CountSeverity(r, Warning),
     info_violations |-> s.info_violations + CountSeverity(r, Info)]

\* most add_result calls on one summary
MaxFiles == 8

\* the results handed to add_result: the two of test_compliance_summary and
\* the analysis of an mkv file of acceptable resolution and audio codec
SummaryResults ==
    {[is_compliant |-> TRUE, score |-> 100, violations |-> <<>>, recommendations |-> <<>>],
     [is_compliant |-> FALSE, score |-> 60,
      violations |-> <<Violation(Critical, "VideoCodec", "Test violation", "mpeg4", "h264")>>,
      recommendations |-> <<"Fix codec">>],
     analyze_compliance([codec |-> "h264", resolution |-> "1360x768", fps |-> Fps(25000),
                         audio_codec |-> "aac", container |-> "mkv",
                         color_space |-> "bt709"])}

\* the file name each is added under
SummaryFilename(r) ==
    CASE r.score = 100 -> "test1.mp4"
      [] r.score = 60 -> "test2.mp4"
      [] OTHER -> "clip.mkv"

InitSummary ==
    /\ metadata = NoMetadata
    /\ path = ""
    /\ result = NoResult
    /\ content_type = "none"
    /\ args = <<>>
    /\ output = NoMetadata
    /\ recheck = NoResult
    /\ err = "none"
    /\ pc = "summary"
    /\ NoAggregates
    /\ NoDirectory
    /\ NoTranscoder

\* summary.add_result(&result, filename)
AddResult ==
    /\ pc = "summary"
    /\ compliance_summary.total_files < MaxFiles
    /\ \E r \in SummaryResults :
        /\ compliance_summary' = add_result(compliance_summary, r, SummaryFilename(r))
        /\ added' = Append(added, [result |-> r, filename |-> SummaryFilename(r)])
    /\ UNCHANGED <<assetVars, processor, calls, directoryVars, transcoderVars>>

NextSummary == AddResult

SpecSummary == InitSummary /\ [][NextSummary]_vars

(***************************************************************************)
(* Claims about ComplianceSummary                                          *)
(***************************************************************************)
RECURSIVE SumScores(_, _)
SumScores(a, i) == IF i > Len(a) THEN 0 ELSE a[i].result.score + SumScores(a, i + 1)

\* s1 + ... + sn divided by n in f64: the quotient of two exact values
MeanOfAdded == F64DivInt(F64FromInt(SumScores(added, 1)), Len(added))

\* C16 as stated: after add_result calls with scores s1..sn, n >= 1,
\* average_score equals the arithmetic mean (s1+...+sn)/n.
C16_AverageIsMean ==
    Len(added) >= 1 => compliance_summary.average_score = MeanOfAdded

\* C16 as it holds: average_score is the f64 reached by the incremental
\* update; up to seven results it is the f64 of the arithmetic mean, and
\* beyond that it is that value or one of its two f64 neighbours.
C16_AverageIsMeanUpToRounding ==
    Len(added) >= 1 =>
        LET avg == compliance_summary.average_score
        IN  /\ Len(added) <= 7 => avg = MeanOfAdded
            /\ \/ avg = MeanOfAdded
               \/ avg = F64NextUp(MeanOfAdded)
               \/ F64NextUp(avg) = MeanOfAdded

\* C16's case: scores 100 then 60 give 80, and a third score 70 gives
\* (80*2+70)/3, the f64 of 230/3
C16_Witness ==
    /\ Len(added) = 3
    /\ added[1].result.score = 100
    /\ added[2].result.score = 60
    /\ added[3].result.score = 70
    /\ compliance_summary.average_score = F64DivInt(F64AddInt(F64MulInt(F64FromInt(80), 2), 70), 3)
    /\ compliance_summary.average_score = F64DivInt(F64FromInt(230), 3)

RECURSIVE SumViolations(_, _)
SumViolations(a, i) ==
    IF i > Len(a) THEN 0 ELSE Len(a[i].result.violations) + SumViolations(a, i + 1)

\* the counters agree with the calls made so far
SummaryCountersAgree ==
    LET s == compliance_summary
        n == Len(added)
    IN  /\ s.total_files = n
        /\ s.compliant_files + s.non_compliant_files = s.total_files
        /\ s.compliant_files = Cardinality({i \in 1..n : added[i].result.is_compliant})
        /\ Len(s.files_by_score) = s.total_files
        /\ \A i \in 1..n :
              s.files_by_score[i] = <<added[i].filename, added[i].result.score>>
        /\ s.critical_violations + s.warning_violations + s.info_violations
              = SumViolations(added, 1)

\* no step lowers a counter or shortens the table
SummaryCountersGrow ==
    LET s == compliance_summary
        t == compliance_summary'
    IN  /\ t.total_files >= s.total_files
        /\ t.compliant_files >= s.compliant_files
        /\ t.non_compliant_files >= s.non_compliant_files
        /\ t.critical_violations >= s.critical_violations
        /\ t.warning_violations >= s.warning_violations
        /\ t.info_violations >= s.info_violations
        /\ Len(t.files_by_score) >= Len(s.files_by_score)
        /\ SubSeq(t.files_by_score, 1, Len(s.files_by_score)) = s.files_by_score

\* C17: after any sequence of add_result calls from new(), total_files is the
\* number of calls, compliant_files + non_compliant_files = total_files,
\* files_by_score holds one entry per call in insertion order, the three
\* severity counters add up to the number of violations of all added results,
\* and no counter ever decreases.
C17_SummaryCounters ==
    /\ []SummaryCountersAgree
    /\ [][SummaryCountersGrow]_vars

\* C17's case: a compliant and a non-compliant result have been added, with
\* violations of all three severities among them
C17_Witness ==
    /\ compliance_summary.total_files = 3
    /\ compliance_summary.compliant_files = 1
    /\ compliance_summary.non_compliant_files = 2
    /\ compliance_summary.critical_violations = 2
    /\ compliance_summary.warning_violations = 1
    /\ compliance_summary.info_violations = 1
    /\ compliance_summary.files_by_score[1] = <<"clip.mkv", 70>>
    /\ compliance_summary.files_by_score[3] = <<"test2.mp4", 60>>

(***************************************************************************)
(* BatchProcessor (lines 1368-1405)                                        *)
(***************************************************************************)
\* Display of VideoError (the #[error] attributes of lines 366-386)
VideoErrorText(e) ==
    CASE e.variant = "Io" -> "IO error: " \o e.msg
      [] e.variant = "FFmpeg" -> "FFmpeg error: " \o e.msg
      [] e.variant = "InvalidPath" -> "Invalid path: " \o e.msg
      [] e.variant = "NoVideosFound" -> "No video files found in directory"
      [] e.variant = "HWAccel" -> "Hardware acceleration error: " \o e.msg
      [] e.variant = "Compliance" -> "Compliance error: " \o e.msg
      [] e.variant = "Standards" -> "Standards parsing error: " \o e.msg
      [] e.variant = "GoogleDrive" -> "Google Drive error: " \o e.msg
      [] e.variant = "Auth" -> "Authentication error: " \o e.msg

\* Result<Option<PathBuf>, VideoError>
OkSome(fixed_path) == [tag |-> "OkSome", fixed_path |-> fixed_path]
OkNone == [tag |-> "OkNone"]
Err(variant, msg) == [tag |-> "Err", error |-> [variant |-> variant, msg |-> msg]]

\* a plausible slip: a failure is counted but not recorded
process_file_result_drops_error(p, file, res) ==
    LET q == [p EXCEPT !.processed_files = @ + 1]
    IN  CASE res.tag = "OkSome" ->
                [q EXCEPT !.fixed_files = Append(@, res.fixed_path)]
          [] res.tag = "OkNone" ->
                [q EXCEPT !.skipped_files = Append(@, file)]
          [] res.tag = "Err" -> q

\* BatchProcessor::process_file_result, lines 1387-1405
process_file_result(p, file, res) ==
    LET q == [p EXCEPT !.processed_files = @ + 1]
    IN  CASE res.tag = "OkSome" ->
                [q EXCEPT !.fixed_files = Append(@, res.fixed_path)]
          [] res.tag = "OkNone" ->
                [q EXCEPT !.skipped_files = Append(@, file)]
          [] res.tag = "Err" ->
                [q EXCEPT !.failed_files = Append(@, <<file, VideoErrorText(res.error)>>)]

\* most process_file_result calls on one processor
MaxCalls == 3

BatchPaths == {"/videos/video.mp4", "/videos/screen_recording.mp4"}

\* what process_single_file_batch can return for a path
BatchResults(file) ==
    {OkSome(PathJoin(OutputDir, FileName(file))),
     OkNone,
     Err("FFmpeg", "Compliance conversion failed with exit code: Some(1)"),
     Err("Io", "No such file or directory (os error 2)")}

InitBatch ==
    /\ metadata = NoMetadata
    /\ path = ""
    /\ result = NoResult
    /\ content_type = "none"
    /\ args = <<>>
    /\ output = NoMetadata
    /\ recheck = NoResult
    /\ err = "none"
    /\ pc = "batch"
    /\ compliance_summary = NewComplianceSummary
    /\ added = <<>>
    /\ processor \in {NewBatchProcessor(n) : n \in 0..MaxCalls}
    /\ calls = <<>>
    /\ NoDirectory
    /\ NoTranscoder

\* processor.process_file_result(path, result)
ProcessFileResult ==
    /\ pc = "batch"
    /\ processor.processed_files < MaxCalls
    /\ \E file \in BatchPaths : \E res \in BatchResults(file) :
        /\ processor' = process_file_result(processor, file, res)
        /\ calls' = Append(calls, [path |-> file, result |-> res])
    /\ UNCHANGED <<assetVars, compliance_summary, added, directoryVars, transcoderVars>>

NextBatch == ProcessFileResult

SpecBatch == InitBatch /\ [][NextBatch]_vars

(***************************************************************************)
(* Claims about BatchProcessor                                             *)
(***************************************************************************)
\* the calls so far whose result carries the given tag, in call order
CallsTagged(tag) == SelectSeq(calls, LAMBDA c : c.result.tag = tag)

\* the three lists hold what the calls so far handed over
BatchListsAgree ==
    /\ processor.processed_files = Len(calls)
    /\ processor.processed_files
          = Len(processor.fixed_files) + Len(processor.skipped_files)
            + Len(processor.failed_files)
    /\ Len(processor.fixed_files) = Len(CallsTagged("OkSome"))
    /\ \A i \in 1..Len(processor.fixed_files) :
          processor.fixed_files[i] = CallsTagged("OkSome")[i].result.fixed_path
    /\ Len(processor.skipped_files) = Len(CallsTagged("OkNone"))
    /\ \A i \in 1..Len(processor.skipped_files) :
          processor.skipped_files[i] = CallsTagged("OkNone")[i].path
    /\ Len(processor.failed_files) = Len(CallsTagged("Err"))
    /\ \A i \in 1..Len(processor.failed_files) :
          /\ processor.failed_files[i][1] = CallsTagged("Err")[i].path
          /\ processor.failed_files[i][2] \in
                {"FFmpeg error: Compliance conversion failed with exit code: Some(1)",
                 "IO error: No such file or directory (os error 2)"}
          /\ CallsTagged("Err")[i].result.error.variant = "FFmpeg"
                <=> SubSeq(processor.failed_files[i][2], 1, 6) = "FFmpeg"

\* a step appends one entry to one list and leaves the other two as they were
BatchOneListGrows ==
    LET grown(f) == /\ Len(processor'[f]) = Len(processor[f]) + 1
                    /\ SubSeq(processor'[f], 1, Len(processor[f])) = processor[f]
        same(f) == processor'[f] = processor[f]
        last == calls'[Len(calls')]
    IN  /\ processor'.processed_files = processor.processed_files + 1
        /\ processor'.total_files = processor.total_files
        /\ last.result.tag = "OkSome" =>
              grown("fixed_files") /\ same("skipped_files") /\ same("failed_files")
        /\ last.result.tag = "OkNone" =>
              grown("skipped_files") /\ same("fixed_files") /\ same("failed_files")
        /\ last.result.tag = "Err" =>
              grown("failed_files") /\ same("fixed_files") /\ same("skipped_files")

\* C18: every process_file_result call appends to exactly one of fixed_files
\* (Ok(Some)), skipped_files (Ok(None)) or failed_files (Err, with the path and
\* the error text) and leaves the other two unchanged, so processed_files =
\* |fixed_files| + |skipped_files| + |failed_files| always, and no error result
\* is dropped.
C18_OneListPerResult ==
    /\ []BatchListsAgree
    /\ [][BatchOneListGrows]_vars

\* C18's case: one result of each kind has been handed over, the failure last
C18_Witness ==
    /\ processor.processed_files = 3
    /\ processor.fixed_files = <<"/videos/H264/video.mp4">>
    /\ processor.skipped_files = <<"/videos/screen_recording.mp4">>
    /\ processor.failed_files =
          <<<<"/videos/video.mp4",
              "FFmpeg error: Compliance conversion failed with exit code: Some(1)">>>>
    /\ calls[3].result.tag = "Err"

(***************************************************************************)
(* process_directory (lines 1514-1634), one step of its body at a time     *)
(***************************************************************************)
\* validate_directory admitting Matroska files as well
validate_directory_with_mkv(d) ==
    LET entries == SelectSeq(d.entries,
                       LAMBDA e : Extension(FileName(e)) \in {"mp4", "avi", "mkv"})
    IN  IF ~d.is_dir THEN [err |-> "InvalidPath", entries |-> <<>>]
        ELSE IF entries = <<>> THEN [err |-> "NoVideosFound", entries |-> <<>>]
        ELSE [err |-> "none", entries |-> entries]

\* validate_directory telling extensions apart without regard to case
validate_directory_any_case(d) ==
    LET entries == SelectSeq(d.entries,
                       LAMBDA e : ToLower(Extension(FileName(e))) \in {"mp4", "avi"})
    IN  IF ~d.is_dir THEN [err |-> "InvalidPath", entries |-> <<>>]
        ELSE IF entries = <<>> THEN [err |-> "NoVideosFound", entries |-> <<>>]
        ELSE [err |-> "none", entries |-> entries]

\* lines 1488-1513: the entries whose extension is exactly mp4 or avi, or the
\* error returned
validate_directory(d) ==
    LET entries == SelectSeq(d.entries, LAMBDA e : Extension(FileName(e)) \in {"mp4", "avi"})
    IN  IF ~d.is_dir THEN [err |-> "InvalidPath", entries |-> <<>>]
        ELSE IF entries = <<>> THEN [err |-> "NoVideosFound", entries |-> <<>>]
        ELSE [err |-> "none", entries |-> entries]

\* what nvidia-smi and ffmpeg -codecs answer
Hardware == [nvidia : BOOLEAN, ffmpeg : BOOLEAN, nvenc : BOOLEAN]

\* lines 571-600
check_hardware_support(hw) ==
    IF ~hw.nvidia THEN "HWAccel"
    ELSE IF ~hw.ffmpeg THEN "FFmpeg"
    ELSE IF ~hw.nvenc THEN "HWAccel"
    ELSE "none"

\* outcomes of the ffprobe run of analyze_video
Probes == {"ok", "not_spawned", "exit_failure", "no_video_stream"}

\* lines 674-793: the error of analyze_video for a probe outcome
analyze_video_error(probe) ==
    CASE probe = "ok" -> "none"
      [] probe = "not_spawned" -> "Io"
      [] OTHER -> "FFmpeg"

\* the streams ffprobe reports for each file of the directory
ProbedStreams(file) ==
    CASE file = "/videos/video.mp4" ->
            [codec |-> "h264", resolution |-> "1920x1080", fps |-> Fps(25000),
             audio_codec |-> "pcm", color_space |-> "bt709"]
      [] file = "/videos/screen_recording.mp4" ->
            [codec |-> "mpeg4", resolution |-> "1360x768", fps |-> Fps(25000),
             audio_codec |-> "aac", color_space |-> "bt709"]
      [] OTHER ->
            [codec |-> "h264", resolution |-> "640x480", fps |-> Fps(25000),
             audio_codec |-> "pcm", color_space |-> "bt2020"]

\* lines 722-793: the metadata analyze_video builds, the container taken from
\* the extension
analyze_video(file) ==
    LET st == ProbedStreams(file)
    IN  [codec |-> st.codec, resolution |-> st.resolution, fps |-> st.fps,
         audio_codec |-> st.audio_codec, container |-> ContainerOf(file),
         color_space |-> st.color_space]

\* lines 849-889: the error of convert_video for a transcoder run
convert_video(run) ==
    IF ~run.spawned THEN "Io"
    ELSE IF run.code # 0 /\ run.code # 130 THEN "FFmpeg"
    ELSE "none"

\* ProcessingSummary::add_video, lines 502-515 (the count of videos)
add_video(s, m) == [s EXCEPT !.total_videos = @ + 1]

\* a plausible slip: the check of is_compliant is missing
RemediationWithoutCheck(fl, r) ==
    IF ~fl.should_convert THEN "none"
    ELSE IF fl.analyze_compliance THEN "fix"
    ELSE "convert"

\* lines 1596-1620: what the loop does with a file once it is aggregated
Remediation(fl, r) ==
    IF ~fl.should_convert THEN "none"
    ELSE IF fl.analyze_compliance
         THEN IF ~r.is_compliant THEN "fix" ELSE "skip"
    ELSE "convert"

\* a plausible slip: the file is fixed before its result is aggregated
LoopBodyAggregateLast == <<"probe", "analyze", "remediate", "aggregate">>

\* lines 1552-1621: the order of the steps of the loop body
LoopBody == <<"probe", "analyze", "aggregate", "remediate">>

\* the step after the given one, "next" after the last
StepAfter(step) ==
    LET i == CHOOSE j \in 1..Len(LoopBody) : LoopBody[j] = step
    IN  IF i = Len(LoopBody) THEN "next" ELSE LoopBody[i + 1]

\* most directory entries
MaxEntries == 2

DirFiles == {"/videos/video.mp4", "/videos/screen_recording.mp4",
             "/videos/lecture.avi", "/videos/clip.mkv", "/videos/movie.MP4"}

\* read_dir: distinct entries in any order
Listings ==
    {l \in UNION {[1..n -> DirFiles] : n \in 0..MaxEntries} :
        \A i, j \in 1..Len(l) : i # j => l[i] # l[j]}

Logged(step, file) == Append(log, [step |-> step, file |-> file])

InitDir ==
    /\ metadata = NoMetadata
    /\ path = ""
    /\ result = NoResult
    /\ content_type = "none"
    /\ args = <<>>
    /\ output = NoMetadata
    /\ recheck = NoResult
    /\ err = "none"
    /\ pc = "start"
    /\ NoAggregates
    /\ NoTranscoder
    /\ directory \in [is_dir : BOOLEAN, entries : Listings]
    /\ flags \in [should_convert : BOOLEAN, analyze_compliance : BOOLEAN]
    /\ video_files = <<>>
    /\ next_file = 0
    /\ summary = [total_videos |-> 0]
    /\ written = {}
    /\ log = <<>>

\* line 1520: validate_directory(dir)?
DirValidate ==
    /\ pc = "start"
    /\ LET v == validate_directory(directory)
       IN  /\ video_files' = v.entries
           /\ err' = v.err
           /\ pc' = IF v.err = "none" THEN "validated" ELSE "returned_err"
    /\ UNCHANGED <<metadata, path, result, content_type, args, output, recheck>>
    /\ UNCHANGED <<transcoderVars, aggregateVars, directory, flags, next_file, summary, written, log>>

\* line 1521: check_hardware_support()?
DirCheckHardware ==
    /\ pc = "validated"
    /\ \E hw \in Hardware :
        /\ err' = check_hardware_support(hw)
        /\ pc' = IF check_hardware_support(hw) = "none" THEN "hardware_ok" ELSE "returned_err"
    /\ log' = Logged("hardware", 0)
    /\ UNCHANGED <<metadata, path, result, content_type, args, output, recheck>>
    /\ UNCHANGED <<transcoderVars, aggregateVars, directory, flags, video_files, next_file, summary, written>>

\* lines 1532-1550: the H264 directory when converting (create_dir_all may
\* fail), the engine, the two empty summaries
DirSetup ==
    /\ pc = "hardware_ok"
    /\ \E created \in BOOLEAN :
        LET failed == flags.should_convert /\ ~created
        IN  /\ err' = IF failed THEN "Io" ELSE "none"
            /\ pc' = IF failed THEN "returned_err" ELSE LoopBody[1]
    /\ next_file' = 1
    /\ UNCHANGED <<metadata, path, result, content_type, args, output, recheck>>
    /\ UNCHANGED <<transcoderVars, aggregateVars, directory, flags, video_files, summary, written, log>>

\* the file is done: on to the next one, or out of the loop
Advance(step) ==
    IF step # "next" THEN step
    ELSE IF next_file < Len(video_files) THEN LoopBody[1]
    ELSE "finish"

\* the probe step of a loop that goes on to the next file when a probe fails
DirProbeSkipsFailed ==
    /\ pc = "probe"
    /\ next_file <= Len(video_files)
    /\ \E probe \in Probes :
        /\ err' = analyze_video_error(probe)
        /\ metadata' = IF probe = "ok" THEN analyze_video(video_files[next_file])
                       ELSE NoMetadata
        /\ pc' = IF probe # "ok" THEN Advance("next")
                 ELSE IF flags.analyze_compliance THEN StepAfter("probe")
                 ELSE StepAfter("analyze")
        /\ next_file' = IF probe # "ok" THEN next_file + 1 ELSE next_file
    /\ path' = video_files[next_file]
    /\ result' = NoResult
    /\ log' = Logged("probe", next_file)
    /\ UNCHANGED <<content_type, args, output, recheck>>
    /\ UNCHANGED <<transcoderVars, aggregateVars, directory, flags, video_files, summary, written>>

\* line 1553: analyze_video(&path)?
DirProbe ==
    /\ pc = "probe"
    /\ next_file <= Len(video_files)
    /\ \E probe \in Probes :
        /\ err' = analyze_video_error(probe)
        /\ metadata' = IF probe = "ok" THEN analyze_video(video_files[next_file])
                       ELSE NoMetadata
        /\ pc' = IF probe # "ok" THEN "returned_err"
                 ELSE IF flags.analyze_compliance THEN StepAfter("probe")
                 ELSE StepAfter("analyze")
    /\ path' = video_files[next_file]
    /\ result' = NoResult
    /\ log' = Logged("probe", next_file)
    /\ UNCHANGED <<content_type, args, output, recheck>>
    /\ UNCHANGED <<transcoderVars, aggregateVars, directory, flags, video_files, next_file, summary, written>>

\* lines 1585-1587: engine.analyze_compliance(&metadata) and its display
DirAnalyze ==
    /\ pc = "analyze"
    /\ result' = analyze_compliance(metadata)
    /\ log' = Logged("analyze", next_file)
    /\ pc' = StepAfter("analyze")
    /\ UNCHANGED <<metadata, path, content_type, args, output, recheck, err>>
    /\ UNCHANGED <<transcoderVars, aggregateVars, directory, flags, video_files, next_file, summary, written>>

\* lines 1588 and 1594: compliance_summary.add_result when analysing, then
\* summary.add_video
DirAggregate ==
    /\ pc = "aggregate"
    /\ IF flags.analyze_compliance
       THEN /\ compliance_summary' = add_result(compliance_summary, result, FileName(path))
            /\ added' = Append(added, [result |-> result, filename |-> FileName(path)])
       ELSE UNCHANGED <<compliance_summary, added>>
    /\ summary' = add_video(summary, metadata)
    /\ log' = Logged("aggregate", next_file)
    /\ pc' = Advance(StepAfter("aggregate"))
    /\ next_file' = IF StepAfter("aggregate") = "next" THEN next_file + 1 ELSE next_file
    /\ UNCHANGED <<metadata, path, result, content_type, args, output, recheck, err>>
    /\ UNCHANGED <<processor, calls, directory, flags, video_files, written, transcoderVars>>

\* lines 1597-1615 (compliance fixing): a non-compliant file is planned and
\* transcoded by fix_video_compliance_optimized
DirFix ==
    /\ pc = "remediate"
    /\ Remediation(flags, result) = "fix"
    /\ \E run \in Runs :
        LET a == OptimizedArgs(path, OutputDir, result, metadata)
            e == execute_compliance_conversion(run)
        IN  /\ content_type' = detect_content_type(metadata, path)
            /\ args' = a
            /\ err' = e
            /\ output' = IF e = "none" THEN TranscodedMetadata(metadata, a) ELSE NoMetadata
            /\ written' = IF e = "none" THEN written \cup {a[Len(a)]} ELSE written
            /\ pc' = IF e = "none" THEN Advance(StepAfter("remediate")) ELSE "returned_err"
            /\ next_file' = IF e = "none" /\ StepAfter("remediate") = "next"
                            THEN next_file + 1 ELSE next_file
    /\ log' = Append(Logged("plan", next_file), [step |-> "transcode", file |-> next_file])
    /\ UNCHANGED <<metadata, path, result, recheck>>
    /\ UNCHANGED <<transcoderVars, aggregateVars, directory, flags, video_files, summary>>

\* lines 1616-1619: convert_video when no analysis was asked for
DirConvert ==
    /\ pc = "remediate"
    /\ Remediation(flags, result) = "convert"
    /\ \E run \in Runs :
        LET e == convert_video(run)
            out == PathJoin(OutputDir, FileName(path))
        IN  /\ err' = e
            /\ written' = IF run.spawned /\ run.code = 0 THEN written \cup {out} ELSE written
            /\ pc' = IF e = "none" THEN Advance(StepAfter("remediate")) ELSE "returned_err"
            /\ next_file' = IF e = "none" /\ StepAfter("remediate") = "next"
                            THEN next_file + 1 ELSE next_file
    /\ log' = Logged("transcode", next_file)
    /\ UNCHANGED <<metadata, path, result, content_type, args, output, recheck>>
    /\ UNCHANGED <<transcoderVars, aggregateVars, directory, flags, video_files, summary>>

\* lines 1596 and 1609-1614: nothing to convert, or the file is compliant
DirLeave ==
    /\ pc = "remediate"
    /\ Remediation(flags, result) \in {"none", "skip"}
    /\ pc' = Advance(StepAfter("remediate"))
    /\ next_file' = IF StepAfter("remediate") = "next" THEN next_file + 1 ELSE next_file
    /\ UNCHANGED <<metadata, path, result, content_type, args, output, recheck, err>>
    /\ UNCHANGED <<transcoderVars, aggregateVars, directory, flags, video_files, summary, written, log>>

\* lines 1623-1633: the report when converting (the write may fail), then the
\* summaries
DirFinish ==
    /\ pc = "finish"
    /\ \E report_written \in BOOLEAN :
        LET failed == flags.should_convert /\ ~report_written
            reported == IF flags.should_convert THEN Logged("report", 0) ELSE log
            shown == IF flags.analyze_compliance
                     THEN reported \o <<[step |-> "display_compliance", file |-> 0],
                                        [step |-> "display", file |-> 0]>>
                     ELSE Append(reported, [step |-> "display", file |-> 0])
        IN  /\ err' = IF failed THEN "Io" ELSE "none"
            /\ pc' = IF failed THEN "returned_err" ELSE "returned_ok"
            /\ log' = IF failed THEN reported ELSE shown
    /\ UNCHANGED <<metadata, path, result, content_type, args, output, recheck>>
    /\ UNCHANGED <<transcoderVars, aggregateVars, directory, flags, video_files, next_file, summary, written>>

NextDir ==
    \/ DirValidate
    \/ DirCheckHardware
    \/ DirSetup
    \/ DirProbe
    \/ DirAnalyze
    \/ DirAggregate
    \/ DirFix
    \/ DirConvert
    \/ DirLeave
    \/ DirFinish

SpecDir == InitDir /\ [][NextDir]_vars

\* both entry points that remediate with compliance analysis:
\* process_single_file_batch and process_directory
InitRemediation == Init \/ InitDir

NextRemediation == Next \/ NextDir

SpecRemediation == InitRemediation /\ [][NextRemediation]_vars

(***************************************************************************)
(* Claims about process_directory                                          *)
(***************************************************************************)
StepRank(step) ==
    CASE step = "probe" -> 1
      [] step = "analyze" -> 2
      [] step = "aggregate" -> 3
      [] step = "plan" -> 4
      [] step = "transcode" -> 5
      [] OTHER -> 0

\* the positions of the log that are steps on a file
FileSteps == {p \in 1..Len(log) : log[p].file >= 1}

\* step on file i logged before position q
LoggedBefore(step, i, q) == \E p \in 1..(q - 1) : log[p] = [step |-> step, file |-> i]

\* file i is to be transcoded under the flags given
ToTranscode(i) ==
    /\ flags.should_convert
    /\ flags.analyze_compliance => ~added[i].result.is_compliant

\* C19: process_directory handles the files strictly one at a time: every step
\* on a file comes after all steps on the files before it in scan order, a
\* file is probed only when each earlier file has been probed, analysed (when
\* analysis is on), aggregated and (when it is to be) transcoded, and the steps
\* on one file come in the order probe, analyze, aggregate, plan, transcode.
C19_OneAssetAtATime ==
    /\ \A p, q \in FileSteps :
          p < q => /\ log[p].file <= log[q].file
                   /\ log[p].file = log[q].file
                         => StepRank(log[p].step) < StepRank(log[q].step)
    /\ \A q \in FileSteps :
          log[q].step = "probe" =>
              \A i \in 1..(log[q].file - 1) :
                  /\ LoggedBefore("probe", i, q)
                  /\ flags.analyze_compliance => LoggedBefore("analyze", i, q)
                  /\ LoggedBefore("aggregate", i, q)
                  /\ ToTranscode(i) => LoggedBefore("transcode", i, q)

\* C19's case: the first file has gone through probe, analysis, aggregation,
\* plan and transcode, and the second has been probed
C19_Witness ==
    /\ Len(log) = 7
    /\ log[1].step = "hardware"
    /\ \A k \in 2..6 : log[k].file = 1 /\ StepRank(log[k].step) = k - 1
    /\ log[7] = [step |-> "probe", file |-> 2]

\* the transcoder has been invoked on file i of the directory
Invoked(i) == \E p \in 1..Len(log) : log[p] = [step |-> "transcode", file |-> i]

\* C20: with compliance analysis on, the transcoder is invoked for a file
\* exactly when its ComplianceResult is not compliant, in process_directory
\* (both flags set) and in process_single_file_batch; a compliant file is
\* skipped (Ok(None)), nothing is planned for it and no output file is
\* produced for it.
C20_TranscodeIffNonCompliant ==
    /\ flags.should_convert /\ flags.analyze_compliance =>
          \A i \in 1..Len(added) :
              LET r == added[i].result
              IN  /\ Invoked(i) => ~r.is_compliant
                  /\ ~r.is_compliant /\ next_file > i => Invoked(i)
                  /\ r.is_compliant =>
                        /\ PathJoin(OutputDir, added[i].filename) \notin written
                        /\ \A p \in 1..Len(log) : log[p] # [step |-> "plan", file |-> i]
    /\ pc = "skipped" => /\ result.is_compliant
                         /\ args = <<>>
                         /\ output = NoMetadata
    /\ pc \in {"fixed", "failed", "rechecked"} => /\ ~result.is_compliant
                                                  /\ args # <<>>

\* C20's case: process_directory has returned after a compliant file, left
\* alone, and a non-compliant one, transcoded
C20_Witness ==
    /\ pc = "returned_ok"
    /\ flags.should_convert /\ flags.analyze_compliance
    /\ Len(added) = 2
    /\ added[1].result.is_compliant
    /\ ~added[2].result.is_compliant
    /\ ~Invoked(1)
    /\ Invoked(2)
    /\ written = {"/videos/H264/screen_recording.mp4"}

(***************************************************************************)
(* The ffmpeg child process of the two transcoder calls, convert_video     *)
(* (lines 849-889) and execute_compliance_conversion (lines 1055-1094).    *)
(* Both spawn ffmpeg and call Child::wait(), which closes the child's      *)
(* stdin and blocks until the child has exited; it reads nothing from the  *)
(* child.  The child's output is counted in chunks: a chunk is one write() *)
(* of the child, and a pipe holds PipeCapacity chunks that nobody has      *)
(* read.  A write() to a full pipe blocks the child.                       *)
(***************************************************************************)

\* chunks a pipe holds before a write() to it blocks
PipeCapacity == 2

\* most chunks a child has to write to one stream before it can exit
MaxOutput == 3

Streams == {"stdout", "stderr"}

Callers == {"convert_video", "execute_compliance_conversion"}

\* the Stdio of the child's stdout and stderr: Stdio::inherit() in
\* convert_video (lines 871-872), Stdio::piped() in
\* execute_compliance_conversion (lines 1073-1074)
StdioOf(caller) == IF caller = "convert_video" THEN "inherit" ELSE "piped"

\* what the call returns once wait() has handed back the exit status
wait_result(caller, run) ==
    IF caller = "convert_video" THEN convert_video(run)
    ELSE execute_compliance_conversion(run)

\* the child can carry out its next write() to the stream: an inherited
\* stream is the terminal of the parent, a piped one has room left
CanWrite(stream) ==
    /\ child.pending[stream] > 0
    /\ \/ StdioOf(child.caller) = "inherit"
       \/ child.pipe[stream] < PipeCapacity

InitTranscoder ==
    /\ metadata = NoMetadata
    /\ path = ""
    /\ result = NoResult
    /\ content_type = "none"
    /\ args = <<>>
    /\ output = NoMetadata
    /\ recheck = NoResult
    /\ err = "none"
    /\ pc = "call"
    /\ NoAggregates
    /\ NoDirectory
    /\ child \in {[NoChild EXCEPT !.caller = c] : c \in Callers}

\* Command::new("ffmpeg")...spawn()?, lines 869-873 and 1071-1075: a spawn
\* failure is returned as Io; otherwise the child runs with the output it
\* has to write and the status it will exit with
TranscoderSpawn ==
    /\ pc = "call"
    /\ \E run \in Runs, out \in 0..MaxOutput, errout \in 0..MaxOutput :
          IF ~run.spawned
          THEN /\ child' = [child EXCEPT !.run = run]
               /\ err' = wait_result(child.caller, run)
               /\ pc' = "returned"
          ELSE /\ child' = [child EXCEPT !.run = run,
                                         !.state = "running",
                                         !.pending = [stdout |-> out, stderr |-> errout]]
               /\ err' = "none"
               /\ pc' = "waiting"
    /\ UNCHANGED <<metadata, path, result, content_type, args, output, recheck>>
    /\ UNCHANGED <<aggregateVars, directoryVars>>

\* one write() of the child; the chunk stays in the pipe when the stream is
\* piped, since neither caller reads the pipe (lines 1077, 875)
TranscoderWrite ==
    /\ child.state = "running"
    /\ \E stream \in Streams :
          /\ CanWrite(stream)
          /\ child' = [child EXCEPT
                          !.pending[stream] = @ - 1,
                          !.pipe[stream] = IF StdioOf(child.caller) = "piped"
                                           THEN @ + 1 ELSE @]
    /\ UNCHANGED <<assetVars, aggregateVars, directoryVars>>

\* the child exits once it has written all its output
TranscoderExit ==
    /\ child.state = "running"
    /\ \A stream \in Streams : child.pending[stream] = 0
    /\ child' = [child EXCEPT !.state = "exited"]
    /\ UNCHANGED <<assetVars, aggregateVars, directoryVars>>

\* child.wait() returns the exit status of the exited child, lines 875-880
\* and 1077-1091
WaitReturns ==
    /\ pc = "waiting"
    /\ child.state = "exited"
    /\ child' = [child EXCEPT !.state = "reaped"]
    /\ err' = wait_result(child.caller, child.run)
    /\ pc' = "returned"
    /\ UNCHANGED <<metadata, path, result, content_type, args, output, recheck>>
    /\ UNCHANGED <<aggregateVars, directoryVars>>

\* child.wait() itself fails: convert_video kills the child and returns Io
\* (lines 881-885), execute_compliance_conversion returns Io (line 1077)
WaitFails ==
    /\ pc = "waiting"
    /\ child.state \in {"running", "exited"}
    /\ child' = [child EXCEPT !.state = IF child.caller = "convert_video"
                                        THEN "killed" ELSE @]
    /\ err' = "Io"
    /\ pc' = "returned"
    /\ UNCHANGED <<metadata, path, result, content_type, args, output, recheck>>
    /\ UNCHANGED <<aggregateVars, directoryVars>>

NextTranscoder ==
    \/ TranscoderSpawn
    \/ TranscoderWrite
    \/ TranscoderExit
    \/ WaitReturns
    \/ WaitFails

SpecTranscoder == InitTranscoder /\ [][NextTranscoder]_vars

\* C21: a transcoder run that ends with a non-zero exit status is reported
\* as a failure by both transcoder calls: once wait() has handed back a
\* status other than 0, the call returns an error.
C21_NonZeroExitIsFailure ==
    (pc = "returned" /\ child.state = "reaped" /\ child.run.code # 0)
        => err = "FFmpeg"

\* C25: the wait of a transcoder call never blocks on a child that is itself
\* blocked: there is no state in which the parent is inside wait() while the
\* child still has output to write and cannot write any of it.
C25_WaitNeverBlocked ==
    ~ /\ pc = "waiting"
      /\ child.state = "running"
      /\ \E stream \in Streams : child.pending[stream] > 0
      /\ \A stream \in Streams : ~CanWrite(stream)

(***************************************************************************)
(* process_directory: what it returns                                      *)
(***************************************************************************)

\* the directory holds a file validate_directory admits
HasVideoFile ==
    \E i \in 1..Len(directory.entries) :
        LET e == directory.entries[i]
        IN  Len(e) > 4 /\ SubSeq(e, Len(e) - 3, Len(e)) \in {".mp4", ".avi"}

\* C22: in analysis-only mode (should_convert false) on a directory that
\* holds .mp4 or .avi files, process_directory returns Ok or an FFmpeg
\* error, and no other kind of error.
C22_AnalysisOnlyErrors ==
    (/\ pc = "returned_err"
     /\ ~flags.should_convert
     /\ directory.is_dir
     /\ HasVideoFile) => err = "FFmpeg"

LastLogged == log[Len(log)]

\* process_directory has returned the error of a probe or of a transcode
AssetFailed ==
    /\ pc = "returned_err"
    /\ log # <<>>
    /\ LastLogged.step \in {"probe", "transcode"}

\* where process_directory stands once it has returned the error of a file:
\* at that file, with no call on a later file, no report and no display
C24_Aborted ==
    AssetFailed =>
        /\ err \in {"Io", "FFmpeg"}
        /\ next_file = LastLogged.file
        /\ \A p \in 1..Len(log) :
              /\ log[p].file <= LastLogged.file
              /\ log[p].step \notin {"report", "display_compliance", "display"}

\* a probe or transcode that gives an error is the last call made, nothing
\* follows a return, and no output file is ever removed
C24_AbortStep ==
    /\ (pc \in {"probe", "remediate"} /\ err' # "none") =>
           /\ pc' = "returned_err"
           /\ \/ log'[Len(log')] = [step |-> "probe", file |-> next_file]
              \/ log'[Len(log')] = [step |-> "transcode", file |-> next_file]
    /\ pc # "returned_err"
    /\ written \subseteq written'

HasContainerViolation(r) == SeveritiesOf(r, "Container") # {}

\* C28: within process_directory no Container violation is produced: the
\* files validate_directory admits have extension mp4 or avi, analyze_video
\* takes the container from the extension, and neither is an unsupported
\* container, so the container rule takes nothing off the score of a
\* scanned file.
C28_NoContainerViolation ==
    /\ metadata # NoMetadata =>
          /\ metadata.container \in {"mp4", "avi"}
          /\ ContainerDeduction(metadata) = 0
    /\ result # NoResult => ~HasContainerViolation(result)
    /\ \A i \in 1..Len(added) : ~HasContainerViolation(added[i].result)

\* C28's case: an .avi file of the directory has been analysed and found
\* non-compliant, for reasons other than its container
C28_Witness ==
    /\ pc = "aggregate"
    /\ path = "/videos/lecture.avi"
    /\ metadata.container = "avi"
    /\ ~result.is_compliant
    /\ result.violations # <<>>
    /\ ~HasContainerViolation(result)

(***************************************************************************)
(* analyze_compliance and the planners on the results it produces          *)
(***************************************************************************)

\* is_compliant and score of the ComplianceResult r agree
ScoreAgrees(r) ==
    /\ r.is_compliant <=> r.score >= 95
    /\ r.is_compliant => r.score \in {95, 100}
    /\ ~r.is_compliant => r.score <= 90

\* C26: under the default catalog compliance and score agree: for every
\* metadata analyze_compliance returns is_compliant = true iff score >= 95;
\* a compliant result scores 100 or 95 and a non-compliant one at most 90.
C26_CompliantIffScore95 ==
    /\ Analyzed => ScoreAgrees(result)
    /\ pc = "rechecked" => ScoreAgrees(recheck)

\* C26's case: an asset whose only violation is the Info one of an
\* acceptable audio codec has been analysed: compliant, score 95
C26_Witness ==
    /\ pc = "analyzed"
    /\ result.is_compliant
    /\ result.score = 95
    /\ Len(result.violations) = 1
    /\ result.violations[1].severity = Info

\* fix_video_compliance_optimized has built the plan of the asset
PlanMade == pc \in {"fixed", "failed", "rechecked"}

\* C27: for every non-compliant result of analyze_compliance the
\* content-aware plan copies the audio stream iff the audio codec of the
\* asset is in the preferred list (pcm, alac); an acceptable codec such as
\* aac, an Info violation that leaves the asset compliant on its own, is
\* re-encoded to pcm_s24le whenever a plan is made.
C27_AudioCopiedIffPreferred ==
    PlanMade =>
        /\ ~result.is_compliant
        /\ AudioSegment(args) = <<"-c:a", "copy">>
              <=> metadata.audio_codec \in {"pcm", "alac"}
        /\ metadata.audio_codec \notin {"pcm", "alac"} =>
              AudioSegment(args) = <<"-c:a", "pcm_s24le", "-ar", "48000", "-ac", "2">>
        /\ metadata.audio_codec = "aac" => SeveritiesOf(result, "AudioCodec") = {Info}

\* C27's case: an asset with aac audio, non-compliant for its resolution
\* alone, has been planned and its audio is re-encoded
C27_Witness ==
    /\ pc = "fixed"
    /\ metadata.audio_codec = "aac"
    /\ CategoriesOf(result) = <<"Resolution", "AudioCodec">>
    /\ result.violations[2].severity = Info
    /\ ArgAfter(args, "-c:a") = "pcm_s24le"

\* C30: for every result of analyze_compliance that holds a Resolution
\* violation the scale target of the plan is 1920:1080: the expected value
\* of the violation lists every preferred resolution, so the 1280:720 branch
\* is not taken, whatever the source resolution is, portrait ones and ones
\* smaller than 1280x720 included.
C30_ScaleTargetIs1080p ==
    /\ Analyzed =>
          \A i \in 1..Len(result.violations) :
              result.violations[i].category = "Resolution" =>
                  /\ \A k \in 1..Len(preferred_resolutions) :
                        StrContains(result.violations[i].expected_value,
                                    preferred_resolutions[k])
                  /\ determine_target_resolution(result) = "1920:1080"
    /\ PlanMade /\ AnyViolation(result, {"Resolution"}) =>
          ArgAfter(args, "-vf") = "scale=1920:1080"
    /\ PlanMade /\ ~AnyViolation(result, {"Resolution"}) => ~HasArg(args, "-vf")

\* C30's case: a portrait asset of an unlisted resolution has been planned
\* and is scaled to 1920:1080
C30_Witness ==
    /\ pc = "fixed"
    /\ metadata.resolution = "1080x1350"
    /\ SeveritiesOf(result, "Resolution") = {Critical}
    /\ ArgAfter(args, "-vf") = "scale=1920:1080"

\* the plan fix_video_compliance_optimized builds for the asset once
\* analyze_compliance has found it non-compliant; <<>> for a compliant asset
ContentAwarePlan ==
    LET r == analyze_compliance(metadata)
    IN  IF r.is_compliant THEN <<>>
        ELSE OptimizedArgs(path, OutputDir, r, metadata)

\* C29: detect_content_type never returns Unknown, and returns Presentation
\* or Animation only when the file name matches their words; so the Unknown
\* row of the quality table (preset p6, cq 18, no tuning) is not selected in
\* a content-aware plan, whose content type comes from detect_content_type.
C29_NeverUnknown ==
    pc = "classified" =>
        /\ content_type \in {"ScreenCapture", "LiveAction", "Animation", "Presentation"}
        /\ content_type = "Presentation" => NameHas(PresentationWords)
        /\ content_type = "Animation" => NameHas(AnimationWords)
        /\ ContentTuning(content_type) # ContentTuning("Unknown")
        /\ HasArg(ContentAwarePlan, "-preset") =>
              /\ ArgAfter(ContentAwarePlan, "-preset") = ContentTuning(content_type)[2]
              /\ ~ /\ ArgAfter(ContentAwarePlan, "-preset") = "p6"
                   /\ ArgAfter(ContentAwarePlan, "-cq") = "18"

\* C29's case: a file named for nothing, at a frame rate that is NaN, has
\* been classified by the last rule of the cascade and its plan tuned for it
C29_Witness ==
    /\ pc = "classified"
    /\ path = "/videos/video.mp4"
    /\ metadata.fps = NaN
    /\ metadata.resolution = "1920x10800"
    /\ content_type = "ScreenCapture"
    /\ ArgAfter(ContentAwarePlan, "-preset") = "p7"

====
